---- MODULE Spec2Model ----
(***************************************************************************)
(* Comfort-Sync-AI: the actuator system (actuators.py), the real-time      *)
(* drowsiness alert system (alert.py) and the windowed decision model      *)
(* (decision_model.py), as state machines.                                 *)
(*                                                                         *)
(* The actuator object is one record, act, and its methods are operators   *)
(* from an actuator record to the actuator record after the call, so that  *)
(* a handler that makes several actuator calls is one action.              *)
(***************************************************************************)
EXTENDS Integers, Sequences, FiniteSets, TLC

VARIABLES
    act,                 \* the ActuatorSystem object (fields and strobe threads)
    ops,                 \* the last two calls logged, <<previous, last>>
    alert_active,        \* RealTimeAlertSystem.alert_active
    alert_acknowledged,  \* RealTimeAlertSystem.alert_acknowledged
    current_alert_type,  \* RealTimeAlertSystem.current_alert_type
    drowsiness_data,     \* RealTimeAlertSystem.drowsiness_data
    running,             \* RealTimeAlertSystem.running
    normal_mode_active,  \* RealTimeAlertSystem.normal_mode_active
    mainPc,              \* the main thread: constructed, started, stopped
    mqttPc,              \* the MQTT network thread: idle, or inside trigger_alert
    ackPc,               \* how many wait_for_acknowledgment threads are at each position
    last_call,           \* the method of the alert system that ran last
    dm,                  \* an EnvironmentDecisionModel object
    twin,                \* a second EnvironmentDecisionModel object
    now,                 \* time.time(), in seconds
    decision,            \* what the last make_decision on dm came back with
    twin_decision,       \* what the last make_decision on twin came back with
    called_at,           \* when dm.make_decision was last called, and on how many samples
    accepted_at,         \* when dm.make_decision last returned a decision
    prior,               \* last_decision_time of dm and twin before they were last called together
    reading,             \* the sensor data, watch data and emotion of the current tick
    discomfort,          \* what calculate_discomfort_score returned for the reading
    pm,                  \* the PersonalizationModel: user_profile and session_data
    data_file,           \* the content of the profile's data file
    savePc,              \* where learn_from_session stands in save_profile
    observed,            \* what a reader of the data file last found
    learned,             \* the last call of learn_from_session: its kind, the model it found
    recorded,            \* the number of record_feedback calls so far
    requested,           \* the user_id the PersonalizationModel is constructed for
    comfort,             \* the last get_comfort_score call: its sample and its result
    personalized,        \* the last get_personalized_environment call: its arguments and its result
    mc,                  \* the MainController: running, current_emotion, last_emotion_time, ...
    controlPc,           \* the control thread: where control_loop stands
    iteration,           \* control_loop's local iteration
    callerPc,            \* the main thread: constructed, started, inside stop(), stopped
    mood,                \* the last on_mqtt_message call: its payload, the fields before it
    delivered,           \* the number of mood messages delivered so far
    lighting,            \* the last get_emotion_based_lighting call: when, and the emotion it used
    escalation,          \* the system status and the risk and temperature it was derived from
    watch,               \* the SmartWatchSimulator: scenario, time_offset, the data it last returned
    summary              \* the last aggregation of dm's buffers: dominant emotion and stress trend

alertVars == <<alert_active, alert_acknowledged, current_alert_type,
               drowsiness_data, running, normal_mode_active, mainPc, mqttPc,
               ackPc, last_call>>
tickVars  == <<reading, discomfort>>
pmVars    == <<pm, data_file, savePc, observed, learned, recorded>>
queryVars == <<requested, comfort, personalized>>
ctlVars   == <<mc, controlPc, iteration, callerPc, mood, delivered, lighting>>
simVars   == <<escalation, watch, summary>>
restVars  == <<reading, discomfort, pm, data_file, savePc, observed, learned,
               recorded, requested, comfort, personalized, mc, controlPc,
               iteration, callerPc, mood, delivered, lighting, escalation,
               watch, summary>>
decVars   == <<dm, twin, now, decision, twin_decision, called_at, accepted_at,
               prior>>
vars      == <<act, ops, alert_active, alert_acknowledged, current_alert_type,
               drowsiness_data, running, normal_mode_active, mainPc, mqttPc,
               ackPc, last_call, dm, twin, now, decision, twin_decision,
               called_at, accepted_at, prior, reading, discomfort, pm,
               data_file, savePc, observed, learned, recorded, requested,
               comfort, personalized, mc, controlPc, iteration, callerPc,
               mood, delivered, lighting, escalation, watch, summary>>

(***************************************************************************)
(* Bounds of the model.                                                    *)
(***************************************************************************)
\* strobe threads (_emergency_loop) that can exist at once
MaxStrobe == 2
\* acknowledgment threads (wait_for_acknowledgment) that can exist at once
MaxAck == 2
\* samples added to a decision model
MaxSamples == 6
\* seconds that pass after the decision model is constructed
MaxElapsed == 20
MaxFeedback == 5

None    == "None"
NoneInt == 0 - 1

\* the positions of an _emergency_loop thread: before the while test, before
\* the ON half, before the OFF half
StrobePcs == {"check", "on", "off"}
\* the positions of a wait_for_acknowledgment thread: blocked in input(),
\* then after each time.sleep of activate_anti_fatigue_mode and start_normal_mode
AckPcs == {"wait", "acked", "energize", "recovery", "normal"}

RECURSIVE SumOver(_, _)
SumOver(f, S) ==
    IF S = {} THEN 0
    ELSE LET x == CHOOSE y \in S : TRUE IN f[x] + SumOver(f, S \ {x})

(***************************************************************************)
(* decision_model.py                                                       *)
(***************************************************************************)
\* EnvironmentDecisionModel.decision_cooldown, in seconds
decision_cooldown == 20
\* deque(maxlen=10) of each of the six buffers
maxlen == 10
\* the smallest number of buffered samples make_decision works on
MinSamples == 5

\* time.time() when the decision model is constructed: the epoch clock is far
\* beyond one cooldown, so last_decision_time = 0 never blocks the first call
StartTime == 5 * decision_cooldown
\* MainController.update_interval: the control loop sleeps 2 s in every tick
update_interval == 2
\* what passes between two calls that the model tells apart: five ticks of the
\* control loop (less than a cooldown) and ten (a whole cooldown)
Delays == {5 * update_interval, 10 * update_interval}

\* what a caller passes to add_data_point when the readings are the numbers
\* read_all() documents: a float temperature and humidity, an int air quality
Samples == {
    [sensor_data |-> [temperature |-> 22, humidity |-> 50,
                      air_quality |-> <<"ppm", 50>>],
     watch_data  |-> [heart_rate |-> 72, stress_level |-> 50],
     emotion     |-> "neutral"],
    [sensor_data |-> [temperature |-> 29, humidity |-> 60,
                      air_quality |-> <<"ppm", 250>>],
     watch_data  |-> [heart_rate |-> 110, stress_level |-> 80],
     emotion     |-> "angry"] }

\* what the control loop passes on from SensorManager.read_all(): read_mq135
\* returns the label that read_air_quality computes from the voltage
SensorSamples == {
    [sensor_data |-> [temperature |-> 22, humidity |-> 50,
                      air_quality |-> <<"label", "Good">>],
     watch_data  |-> [heart_rate |-> 72, stress_level |-> 25],
     emotion     |-> "neutral"] }

RECURSIVE SumSeq(_)
SumSeq(s) == IF s = <<>> THEN 0 ELSE Head(s) + SumSeq(Tail(s))

\* deque.append with maxlen: the oldest value leaves a full buffer
DequeAppend(buffer, v) ==
    IF Len(buffer) < maxlen THEN Append(buffer, v)
    ELSE Append(Tail(buffer), v)

DefaultEnvironment ==
    [color_scheme |-> "calming_soft", brightness |-> 160,
     audio |-> "ambient_soft", volume |-> 35,
     description |-> "Default calming environment (waiting for data)"]

InitModel ==
    [temperature_buffer  |-> <<>>,
     humidity_buffer     |-> <<>>,
     air_quality_buffer  |-> <<>>,
     heart_rate_buffer   |-> <<>>,
     stress_buffer       |-> <<>>,
     emotion_buffer      |-> <<>>,
     current_environment |-> DefaultEnvironment,
     last_decision_time  |-> 0]

add_data_point(m, sensor_data, watch_data, emotion) ==
    [m EXCEPT !.temperature_buffer = DequeAppend(@, sensor_data.temperature),
              !.humidity_buffer    = DequeAppend(@, sensor_data.humidity),
              !.air_quality_buffer = DequeAppend(@, sensor_data.air_quality),
              !.heart_rate_buffer  = DequeAppend(@, watch_data.heart_rate),
              !.stress_buffer      = DequeAppend(@, watch_data.stress_level),
              !.emotion_buffer     = DequeAppend(@, emotion)]

\* the six buffers of a model
Buffers(m) ==
    <<m.temperature_buffer, m.humidity_buffer, m.air_quality_buffer,
      m.heart_rate_buffer, m.stress_buffer, m.emotion_buffer>>

EmotionCount(buffer, e) == Cardinality({i \in 1..Len(buffer) : buffer[i] = e})

\* a max that keeps the last key of the largest count
get_dominant_emotion_LastMax(m) ==
    LET buffer == m.emotion_buffer
    IN IF buffer = <<>> THEN "neutral"
       ELSE LET i == CHOOSE k \in 1..Len(buffer) :
                       /\ \A j \in 1..Len(buffer) :
                            EmotionCount(buffer, buffer[j])
                                <= EmotionCount(buffer, buffer[k])
                       /\ \A j \in (k + 1)..Len(buffer) :
                            EmotionCount(buffer, buffer[j])
                                < EmotionCount(buffer, buffer[k])
            IN buffer[i]

\* max(emotion_counts, key=emotion_counts.get): the dict is built in the order
\* of first occurrence and max keeps the first key that has the largest count
get_dominant_emotion(m) ==
    LET buffer == m.emotion_buffer
    IN IF buffer = <<>> THEN "neutral"
       ELSE LET i == CHOOSE k \in 1..Len(buffer) :
                       /\ \A j \in 1..Len(buffer) :
                            EmotionCount(buffer, buffer[j])
                                <= EmotionCount(buffer, buffer[k])
                       /\ \A j \in 1..(k - 1) :
                            EmotionCount(buffer, buffer[j])
                                < EmotionCount(buffer, buffer[k])
            IN buffer[i]

\* np.mean, kept exact as <<sum, count>>
mean(buffer) == <<SumSeq(buffer), Len(buffer)>>
\* mean > x and mean < x on that pair
MeanAbove(avg, x) == avg[1] > x * avg[2]
MeanBelow(avg, x) == avg[1] < x * avg[2]

\* np.mean raises TypeError on a buffer that holds None or a str
TemperatureIsNumber(v) == v # NoneInt
AirQualityIsNumber(v)  == v[1] = "ppm"
AveragesRaise(m) ==
    \/ \E i \in 1..Len(m.temperature_buffer) :
          ~TemperatureIsNumber(m.temperature_buffer[i])
    \/ \E i \in 1..Len(m.humidity_buffer) :
          ~TemperatureIsNumber(m.humidity_buffer[i])
    \/ \E i \in 1..Len(m.air_quality_buffer) :
          ~AirQualityIsNumber(m.air_quality_buffer[i])

AirQualityPpm(buffer) == [i \in 1..Len(buffer) |-> buffer[i][2]]

calculate_averages(m) ==
    [avg_temp         |-> IF m.temperature_buffer # <<>>
                          THEN mean(m.temperature_buffer) ELSE <<0, 1>>,
     avg_humidity     |-> IF m.humidity_buffer # <<>>
                          THEN mean(m.humidity_buffer) ELSE <<0, 1>>,
     avg_air_quality  |-> IF m.air_quality_buffer # <<>>
                          THEN mean(AirQualityPpm(m.air_quality_buffer))
                          ELSE <<0, 1>>,
     avg_heart_rate   |-> IF m.heart_rate_buffer # <<>>
                          THEN mean(m.heart_rate_buffer) ELSE <<0, 1>>,
     avg_stress       |-> IF m.stress_buffer # <<>>
                          THEN mean(m.stress_buffer) ELSE <<0, 1>>,
     dominant_emotion |-> get_dominant_emotion(m)]

\* a trend whose comparisons include the boundary
calculate_trend_Inclusive(buffer) ==
    IF Len(buffer) < 3 THEN "stable"
    ELSE LET n    == Len(buffer)
             diff2 == 2 * buffer[n] - (buffer[n - 2] + buffer[n - 1])
         IN IF diff2 >= 10 THEN "increasing"
            ELSE IF diff2 <= 0 - 10 THEN "decreasing"
            ELSE "stable"

\* the last value against the mean of the two before it:
\* last - (a + b) / 2 > 5 is 2 * last - (a + b) > 10
calculate_trend(buffer) ==
    IF Len(buffer) < 3 THEN "stable"
    ELSE LET n    == Len(buffer)
             diff2 == 2 * buffer[n] - (buffer[n - 2] + buffer[n - 1])
         IN IF diff2 > 10 THEN "increasing"
            ELSE IF diff2 < 0 - 10 THEN "decreasing"
            ELSE "stable"

\* the five candidate modes in the order the decision_scores dict holds them
ModeOrder == <<"calming_cool", "calming_warm", "energizing",
               "neutral_comfort", "deep_relax">>
Modes == {ModeOrder[i] : i \in 1..Len(ModeOrder)}

AddScore(scores, mode, points) == [scores EXCEPT ![mode] = @ + points]

\* Factor 1: stress level
StressFactor(scores, avg) ==
    IF MeanAbove(avg.avg_stress, 70)
    THEN AddScore(AddScore(scores, "deep_relax", 4), "calming_cool", 3)
    ELSE IF MeanAbove(avg.avg_stress, 50)
    THEN AddScore(AddScore(scores, "calming_cool", 3), "calming_warm", 2)
    ELSE IF MeanBelow(avg.avg_stress, 30)
    THEN AddScore(AddScore(scores, "energizing", 2), "neutral_comfort", 3)
    ELSE AddScore(scores, "neutral_comfort", 3)

\* Factor 2: dominant emotion
EmotionFactor(scores, avg) ==
    LET emotion == avg.dominant_emotion
    IN IF emotion = "angry"
       THEN AddScore(AddScore(scores, "calming_cool", 4), "deep_relax", 2)
       ELSE IF emotion = "sad"
       THEN AddScore(AddScore(scores, "calming_warm", 4), "energizing", 2)
       ELSE IF emotion = "fear"
       THEN AddScore(AddScore(scores, "calming_warm", 3), "deep_relax", 3)
       ELSE IF emotion = "happy"
       THEN AddScore(AddScore(scores, "energizing", 3), "neutral_comfort", 2)
       ELSE AddScore(scores, "neutral_comfort", 2)

\* Factor 3: temperature
TemperatureFactor(scores, avg) ==
    IF MeanAbove(avg.avg_temp, 26) THEN AddScore(scores, "calming_cool", 3)
    ELSE IF MeanBelow(avg.avg_temp, 20) THEN AddScore(scores, "calming_warm", 3)
    ELSE scores

\* Factor 4: heart rate
HeartRateFactor(scores, avg) ==
    IF MeanAbove(avg.avg_heart_rate, 100)
    THEN AddScore(AddScore(scores, "deep_relax", 2), "calming_cool", 2)
    ELSE scores

\* a trend factor that rewards the energizing mode as well
TrendFactor_Energizing(scores, stress_trend) ==
    IF stress_trend = "increasing"
    THEN AddScore(AddScore(AddScore(scores, "deep_relax", 2),
                           "calming_cool", 1), "energizing", 2)
    ELSE scores

\* Factor 5: stress trend
TrendFactor(scores, stress_trend) ==
    IF stress_trend = "increasing"
    THEN AddScore(AddScore(scores, "deep_relax", 2), "calming_cool", 1)
    ELSE scores

decision_scores(m) ==
    LET avg == calculate_averages(m)
    IN TrendFactor(
           HeartRateFactor(
               TemperatureFactor(
                   EmotionFactor(
                       StressFactor([mode \in Modes |-> 0], avg), avg), avg),
               avg),
           calculate_trend(m.stress_buffer))

\* a max that keeps the last mode that has the largest score
best_decision_LastMax(scores) ==
    LET i == CHOOSE k \in 1..Len(ModeOrder) :
                 /\ \A j \in 1..Len(ModeOrder) :
                        scores[ModeOrder[j]] <= scores[ModeOrder[k]]
                 /\ \A j \in (k + 1)..Len(ModeOrder) :
                        scores[ModeOrder[j]] < scores[ModeOrder[k]]
    IN ModeOrder[i]

\* max(decision_scores, key=decision_scores.get): the first mode, in dict
\* order, that has the largest score
best_decision(scores) ==
    LET i == CHOOSE k \in 1..Len(ModeOrder) :
                 /\ \A j \in 1..Len(ModeOrder) :
                        scores[ModeOrder[j]] <= scores[ModeOrder[k]]
                 /\ \A j \in 1..(k - 1) :
                        scores[ModeOrder[j]] < scores[ModeOrder[k]]
    IN ModeOrder[i]

environment_map(mode) ==
    CASE mode = "calming_cool" ->
             [color_scheme |-> "calming_blue", brightness |-> 200,
              audio |-> "ocean_waves", volume |-> 50,
              description |-> "Cool calming environment"]
      [] mode = "calming_warm" ->
             [color_scheme |-> "warming", brightness |-> 190,
              audio |-> "fireplace_crackling", volume |-> 45,
              description |-> "Warm comforting environment"]
      [] mode = "energizing" ->
             [color_scheme |-> "cabin_evening", brightness |-> 180,
              audio |-> "uplifting_ambient", volume |-> 40,
              description |-> "Energizing positive environment"]
      [] mode = "neutral_comfort" ->
             [color_scheme |-> "cabin_day", brightness |-> 140,
              audio |-> "ambient_soft", volume |-> 30,
              description |-> "Neutral comfortable environment"]
      [] mode = "deep_relax" ->
             [color_scheme |-> "calming_soft", brightness |-> 220,
              audio |-> "meditation_calm", volume |-> 55,
              description |-> "Deep relaxation mode"]

\* the dict make_decision builds: the settings of the winning mode with the
\* scores and the averages attached
WithDetails(env, scores, avg) ==
    [color_scheme  |-> env.color_scheme,
     brightness    |-> env.brightness,
     audio         |-> env.audio,
     volume        |-> env.volume,
     description   |-> env.description,
     score_details |-> scores,
     analytics     |-> avg]

DecisionFor(scores, avg) ==
    WithDetails(environment_map(best_decision(scores)), scores, avg)

Decision(m) == DecisionFor(decision_scores(m), calculate_averages(m))

\* what a call of make_decision comes back with: None, a decision, or the
\* TypeError of np.mean
ReturnedNone     == [kind |-> "None"]
Raised           == [kind |-> "TypeError"]
Returned(d)      == [kind |-> "decision", value |-> d]
NotCalled        == [kind |-> "not called"]

InCooldown(m, t) == t - m.last_decision_time < decision_cooldown
TooFewSamples(m) == Len(m.stress_buffer) < MinSamples

\* the end of make_decision: the decision is stored and returned
Accept(m, t, d) ==
    [ret  |-> Returned(d),
     self |-> [m EXCEPT !.last_decision_time = t,
                        !.current_environment = d]]

\* a make_decision that leaves last_decision_time alone
make_decision_NoCooldownStart(m, t) ==
    IF InCooldown(m, t) \/ TooFewSamples(m)
    THEN [ret |-> ReturnedNone, self |-> m]
    ELSE IF AveragesRaise(m) THEN [ret |-> Raised, self |-> m]
    ELSE Accept(m, m.last_decision_time, Decision(m))

\* a make_decision that, once it has decided, keeps to its environment
make_decision_KeepsEnvironment(m, t) ==
    IF InCooldown(m, t) \/ TooFewSamples(m)
    THEN [ret |-> ReturnedNone, self |-> m]
    ELSE IF AveragesRaise(m) THEN [ret |-> Raised, self |-> m]
    ELSE IF m.last_decision_time = 0 THEN Accept(m, t, Decision(m))
    ELSE Accept(m, t, m.current_environment)

\* make_decision called at time t: the value returned and the model after
make_decision(m, t) ==
    IF InCooldown(m, t) THEN [ret |-> ReturnedNone, self |-> m]
    ELSE IF TooFewSamples(m) THEN [ret |-> ReturnedNone, self |-> m]
    ELSE IF AveragesRaise(m) THEN [ret |-> Raised, self |-> m]
    ELSE Accept(m, t, Decision(m))

(***************************************************************************)
(* main_controller.py: the discomfort scorer                               *)
(***************************************************************************)
\* MainController.thresholds
thresholds ==
    [temperature |-> [min |-> 20, max |-> 26,
                      critical_min |-> 16, critical_max |-> 30],
     humidity    |-> [min |-> 40, max |-> 60,
                      critical_min |-> 30, critical_max |-> 70],
     air_quality |-> [good |-> 100, moderate |-> 200, bad |-> 300],
     stress      |-> [low |-> 40, moderate |-> 70, high |-> 85],
     heart_rate  |-> [normal |-> 85, elevated |-> 100, high |-> 115]]

\* no tick has read the sensors yet; no score has been computed for the tick
NoReading == [taken |-> FALSE]
NotScored == [kind |-> "not scored"]

\* score += points; issues.append(issue)
AddIssue(r, points, issue) ==
    [score |-> r.score + points, issues |-> Append(r.issues, issue)]

\* a temperature check that counts the boundary itself as critical
TemperatureCheck_Inclusive(r, temp) ==
    IF \/ temp <= thresholds.temperature.critical_min
       \/ temp >= thresholds.temperature.critical_max
    THEN AddIssue(r, 3, <<"Critical temperature", temp>>)
    ELSE IF \/ temp < thresholds.temperature.min
            \/ temp > thresholds.temperature.max
    THEN AddIssue(r, 2, <<"Uncomfortable temperature", temp>>)
    ELSE r

TemperatureCheck(r, temp) ==
    IF \/ temp < thresholds.temperature.critical_min
       \/ temp > thresholds.temperature.critical_max
    THEN AddIssue(r, 3, <<"Critical temperature", temp>>)
    ELSE IF \/ temp < thresholds.temperature.min
            \/ temp > thresholds.temperature.max
    THEN AddIssue(r, 2, <<"Uncomfortable temperature", temp>>)
    ELSE r

HumidityCheck(r, humidity) ==
    IF \/ humidity < thresholds.humidity.critical_min
       \/ humidity > thresholds.humidity.critical_max
    THEN AddIssue(r, 2, <<"Critical humidity", humidity>>)
    ELSE IF \/ humidity < thresholds.humidity.min
            \/ humidity > thresholds.humidity.max
    THEN AddIssue(r, 1, <<"Suboptimal humidity", humidity>>)
    ELSE r

AirQualityCheck(r, air_quality) ==
    IF air_quality > thresholds.air_quality.bad
    THEN AddIssue(r, 3, <<"Poor air quality", air_quality>>)
    ELSE IF air_quality > thresholds.air_quality.moderate
    THEN AddIssue(r, 1, <<"Moderate air quality", air_quality>>)
    ELSE r

StressCheck(r, stress) ==
    IF stress > thresholds.stress.high
    THEN AddIssue(r, 3, <<"Very high stress", stress>>)
    ELSE IF stress > thresholds.stress.moderate
    THEN AddIssue(r, 2, <<"Elevated stress", stress>>)
    ELSE IF stress > thresholds.stress.low
    THEN AddIssue(r, 1, <<"Mild stress", stress>>)
    ELSE r

HeartRateCheck(r, hr) ==
    IF hr > thresholds.heart_rate.high
    THEN AddIssue(r, 2, <<"High heart rate", hr>>)
    ELSE IF hr > thresholds.heart_rate.elevated
    THEN AddIssue(r, 1, <<"Elevated heart rate", hr>>)
    ELSE r

NegativeEmotions == {"angry", "fear", "sad"}

EmotionCheck(r, current_emotion) ==
    IF current_emotion \in NegativeEmotions
    THEN AddIssue(r, 2, <<"Negative emotion detected", current_emotion>>)
    ELSE r

\* a return that does not clamp the score
ClampScore_Unclamped(score) == score

\* min(score, 10)
ClampScore(score) == IF score < 10 THEN score ELSE 10

calculate_discomfort_score(sensor_data, watch_data, current_emotion) ==
    LET r == EmotionCheck(
                 HeartRateCheck(
                     StressCheck(
                         AirQualityCheck(
                             HumidityCheck(
                                 TemperatureCheck(
                                     [score |-> 0, issues |-> <<>>],
                                     sensor_data.temperature),
                                 sensor_data.humidity),
                             sensor_data.air_quality),
                         watch_data.stress_level),
                     watch_data.heart_rate),
                 current_emotion)
    IN [kind |-> "scored", score |-> ClampScore(r.score), issues |-> r.issues]

(***************************************************************************)
(* personalization_model.py: the user profile, the session buffer and the  *)
(* learning step, as operators on the model's state. Temperatures and      *)
(* humidities that round(x, 1) produces are kept in tenths, so the         *)
(* preferred values of the comfort zones are in tenths throughout.          *)
(***************************************************************************)
\* __init__: the profile of a new user
DefaultProfile ==
    [user_id |-> "user_default",
     total_sessions |-> 0,
     preferences |->
        [happy    |-> [color |-> "cabin_evening", brightness |-> 180,
                       audio |-> "uplifting_ambient", volume |-> 40],
         neutral  |-> [color |-> "cabin_day", brightness |-> 130,
                       audio |-> "ambient_soft", volume |-> 30],
         sad      |-> [color |-> "warming", brightness |-> 190,
                       audio |-> "fireplace_crackling", volume |-> 45],
         angry    |-> [color |-> "calming_blue", brightness |-> 200,
                       audio |-> "ocean_waves", volume |-> 50],
         fear     |-> [color |-> "calming_soft", brightness |-> 220,
                       audio |-> "meditation_calm", volume |-> 55],
         surprise |-> [color |-> "neutral_warm", brightness |-> 160,
                       audio |-> "ambient_soft", volume |-> 35],
         disgust  |-> [color |-> "nature_green", brightness |-> 150,
                       audio |-> "ambient_soft", volume |-> 30]],
     comfort_zones |->
        [temperature |-> [min |-> 20, max |-> 26, preferred |-> 230],
         humidity    |-> [min |-> 40, max |-> 60, preferred |-> 500],
         stress      |-> [comfortable_max |-> 40],
         heart_rate  |-> [comfortable_max |-> 85]],
     learning_history |-> <<>>]

\* the keys of user_profile['preferences'], in the order of the dict
EmotionOrder == <<"happy", "neutral", "sad", "angry", "fear", "surprise",
                  "disgust">>

\* the model after __init__ found the profile p (the default one, or the
\* one load_profile read)
ModelWith(p) == [user_profile |-> p, session_data |-> <<>>]

\* record_feedback: the entry is appended to the session buffer (its
\* timestamp is left out)
record_feedback(self, environment_state, sensor_data, watch_data, emotion, comfort_improved) ==
    [self EXCEPT !.session_data =
        Append(@, [emotion |-> emotion,
                   environment |-> environment_state,
                   sensor_data |-> sensor_data,
                   watch_data |-> watch_data,
                   comfort_improved |-> comfort_improved])]

\* an emotion group that counts every entry, improved or not
emotion_group_All(session_data, emotion) ==
    SelectSeq(session_data, LAMBDA entry : entry.emotion = emotion)

\* emotion_groups[emotion]: the comfort-improved entries of the emotion, in
\* session order
emotion_group(session_data, emotion) ==
    SelectSeq(session_data,
              LAMBDA entry : entry.comfort_improved /\ entry.emotion = emotion)

\* [e['environment'][key] for e in entries], one operator per key
Brightnesses(entries) ==
    [i \in 1..Len(entries) |-> entries[i].environment.brightness]
Volumes(entries) ==
    [i \in 1..Len(entries) |-> entries[i].environment.volume]
Colors(entries) ==
    [i \in 1..Len(entries) |-> entries[i].environment.color_scheme]
Audios(entries) ==
    [i \in 1..Len(entries) |-> entries[i].environment.audio]
Temperatures(entries) ==
    [i \in 1..Len(entries) |-> entries[i].sensor_data.temperature]
Humidities(entries) ==
    [i \in 1..Len(entries) |-> entries[i].sensor_data.humidity]

\* values.count(v)
CountOf(values, v) == Cardinality({i \in DOMAIN values : values[i] = v})

\* max(set(values), key=values.count): the first value of largest count in
\* the iteration order of the set, which follows the hashes of the strings
\* and differs from run to run; any value of largest count can come out
MostCommon(values) ==
    {v \in {values[i] : i \in DOMAIN values} :
        \A w \in {values[i] : i \in DOMAIN values} :
            CountOf(values, v) >= CountOf(values, w)}

\* the arguments <<old, n, sum>> for which 0.7 * old + 0.3 * (sum / n),
\* computed in binary floating point, falls just below the integer it equals
\* in exact arithmetic (the entries' values of this model, n up to 8)
FloatShort ==
    {
      <<46, 5, 230>>, <<53, 5, 215>>, <<56, 5, 230>>, <<63, 5, 215>>,
      <<66, 5, 230>>, <<73, 5, 215>>, <<92, 5, 260>>, <<96, 5, 230>>,
      <<170, 3, 620>>, <<170, 6, 1120>>, <<170, 6, 1240>>, <<180, 3, 620>>,
      <<180, 6, 1120>>, <<180, 6, 1240>>, <<184, 5, 1020>>, <<192, 5, 1060>>,
      <<194, 5, 1020>>, <<202, 5, 1060>>, <<204, 5, 1020>>, <<212, 5, 1060>>,
      <<214, 5, 1020>>, <<222, 5, 1060>>, <<224, 5, 1020>>, <<232, 5, 1060>>,
      <<234, 5, 1020>>, <<242, 5, 1060>>, <<244, 5, 1020>>, <<252, 5, 1060>>,
      <<254, 5, 1020>>
    }

\* int(0.7 * old + 0.3 * np.mean(values)): the floating-point sum, truncated
Blend(old, values) ==
    LET n == Len(values)
        s == SumSeq(values)
        q == (7 * old * n + 3 * s) \div (10 * n)
    IN IF <<old, n, s>> \in FloatShort THEN q - 1 ELSE q

\* rounding of num / den to the nearest integer, halves to the even one
RoundHalfEven(num, den) ==
    LET q == num \div den
        r == num % den
    IN IF 2 * r < den THEN q
       ELSE IF 2 * r > den THEN q + 1
       ELSE IF q % 2 = 0 THEN q ELSE q + 1

\* round(np.mean(values), 1), in tenths
MeanTenths(values) == RoundHalfEven(10 * SumSeq(values), Len(values))

\* the smallest group a preference is learned from
MinGroup == 2

\* the preferences an emotion can get from its group: the old one for a group
\* of fewer than 2 entries, else the blend with each most common colour and
\* audio
NewPreferences(old_pref, entries) ==
    IF Len(entries) < MinGroup THEN {old_pref}
    ELSE {[color      |-> most_common_color,
           brightness |-> Blend(old_pref.brightness, Brightnesses(entries)),
           audio      |-> most_common_audio,
           volume     |-> Blend(old_pref.volume, Volumes(entries))] :
          most_common_color \in MostCommon(Colors(entries)),
          most_common_audio \in MostCommon(Audios(entries))}

\* the loop over emotion_groups: every preferences dict it can leave, from
\* the dicts in prefs (the emotions of the entries are keys of the dict)
RECURSIVE UpdatePreferences(_, _, _)
UpdatePreferences(prefs, session_data, emotions) ==
    IF emotions = <<>> THEN prefs
    ELSE UpdatePreferences(
             UNION {{[p EXCEPT ![Head(emotions)] = new_pref] :
                        new_pref \in NewPreferences(
                                         p[Head(emotions)],
                                         emotion_group(session_data,
                                                       Head(emotions)))} :
                    p \in prefs},
             session_data, Tail(emotions))

\* comfortable_entries: the comfort-improved entries of the session
comfortable_entries(session_data) ==
    SelectSeq(session_data, LAMBDA entry : entry.comfort_improved)

\* the preferred temperature and humidity become the rounded means over the
\* comfortable entries, if there are any
UpdateComfortZones(comfort_zones, session_data) ==
    IF comfortable_entries(session_data) = <<>> THEN comfort_zones
    ELSE [comfort_zones EXCEPT
            !.temperature.preferred =
                MeanTenths(Temperatures(comfortable_entries(session_data))),
            !.humidity.preferred =
                MeanTenths(Humidities(comfortable_entries(session_data)))]

\* a summary that counts every entry as an improvement
learning_summary_AllImproved(session_data) ==
    [entries_analyzed   |-> Len(session_data),
     improvements_found |-> Len(session_data)]

\* the entry appended to learning_history (its timestamp is left out)
learning_summary(session_data) ==
    [entries_analyzed   |-> Len(session_data),
     improvements_found |-> Len(comfortable_entries(session_data))]

\* the fewest entries a session is learned from
MinEntries == 5

\* a test that lets a session of four entries through
TooFewEntries_Four(self) == Len(self.session_data) < MinEntries - 1

\* len(self.session_data) < 5
TooFewEntries(self) == Len(self.session_data) < MinEntries

\* the profiles that lines 110-164 of learn_from_session can leave in memory
LearnedProfiles(self) ==
    {[self.user_profile EXCEPT
        !.preferences      = p,
        !.comfort_zones    = UpdateComfortZones(@, self.session_data),
        !.learning_history = Append(@, learning_summary(self.session_data)),
        !.total_sessions   = @ + 1] :
     p \in UpdatePreferences({self.user_profile.preferences},
                             self.session_data, EmotionOrder)}

\* the data file: absent, opened for writing and still empty, written in
\* part, or holding a whole JSON document
NoFile          == [state |-> "absent"]
EmptyFile       == [state |-> "empty"]
PartialFile     == [state |-> "partial"]
CompleteFile(p) == [state |-> "complete", document |-> p]

\* a failed save whose exception leaves learn_from_session
after_failed_save_Raises(self) == self

\* save_profile caught the exception and returned: the session is cleared
after_failed_save(self) == [self EXCEPT !.session_data = <<>>]

\* save_profile returned after writing: the session is cleared
after_save(self) == [self EXCEPT !.session_data = <<>>]

\* what is remembered of the last call of learn_from_session, of
\* get_comfort_score and of get_personalized_environment
NoScore       == [kind |-> "no score"]
NoEnvironment == [kind |-> "no environment"]
NotLearned == [kind |-> "not called"]
NotRead    == [state |-> "not read"]

\* the profile __init__ builds for user_id before load_profile
ProfileOf(user_id) == [DefaultProfile EXCEPT !.user_id = user_id]

\* a data file that exists and cannot be opened for reading
UnreadableFile == [state |-> "unreadable"]

\* open and json.load: the document of a whole file; an exception for a file
\* that cannot be opened or does not hold a whole document
json_load(file) ==
    IF file.state = "complete"
    THEN [kind |-> "value", value |-> file.document]
    ELSE [kind |-> "exception"]

\* a load that takes the profile of whatever user the file belongs to
load_profile_AnyUser(self, user_id, file) ==
    IF file.state = "absent" THEN self
    ELSE IF json_load(file).kind = "exception" THEN self
    ELSE IF "user_id" \notin DOMAIN json_load(file).value THEN self
    ELSE [self EXCEPT !.user_profile = json_load(file).value]

\* load_profile: the profile of the file when the file exists, decodes and
\* carries the user_id asked for; every exception is caught
load_profile(self, user_id, file) ==
    IF file.state = "absent" THEN self
    ELSE IF json_load(file).kind = "exception" THEN self
    ELSE IF "user_id" \notin DOMAIN json_load(file).value THEN self
    ELSE IF json_load(file).value.user_id = user_id
         THEN [self EXCEPT !.user_profile = json_load(file).value]
         ELSE self

\* PersonalizationModel(user_id): the default profile for user_id, then
\* load_profile; the session buffer is empty
PersonalizationModel(user_id, file) ==
    load_profile(ModelWith(ProfileOf(user_id)), user_id, file)

Abs(x) == IF x < 0 THEN 0 - x ELSE x

\* a stress term that is subtracted below the comfortable maximum too
StressPenalty_Always(stress_level, comfortable_max) ==
    5 * (stress_level - comfortable_max)

\* (stress_level - comfortable_max) * 0.5 above the comfortable maximum, in
\* tenths of a point
StressPenalty(stress_level, comfortable_max) ==
    IF stress_level > comfortable_max
    THEN 5 * (stress_level - comfortable_max)
    ELSE 0

\* get_comfort_score, in tenths of a point: temperature and humidity of the
\* sample are in whole degrees and percent, the preferred ones in tenths.
\* The value returned and the model after the call.
get_comfort_score(self, sensor_data, watch_data) ==
    LET zones == self.user_profile.comfort_zones
        score == 1000
                 - 5 * Abs(10 * sensor_data.temperature
                           - zones.temperature.preferred)
                 - 2 * Abs(10 * sensor_data.humidity
                           - zones.humidity.preferred)
                 - StressPenalty(watch_data.stress_level,
                                 zones.stress.comfortable_max)
    IN [ret  |-> IF score > 1000 THEN 1000 ELSE IF score < 0 THEN 0 ELSE score,
        self |-> self]

\* 'warming' in color, and 'cooling' in color or 'calming_blue' in color,
\* over the colour schemes of the preferences and of the actuators
ContainsWarming(color) == color \in {"warming", "warming_intense"}
ContainsCooling(color) ==
    color \in {"cooling", "cooling_intense", "calming_blue"}

\* min(brightness + 20, 255)
HotBrightness(brightness) ==
    IF brightness + 20 < 255 THEN brightness + 20 ELSE 255

\* a cold adjustment that raises the brightness
ColdBrightness_Raised(brightness) ==
    IF brightness + 20 < 255 THEN brightness + 20 ELSE 255

\* max(brightness - 20, 100)
ColdBrightness(brightness) ==
    IF brightness - 20 > 100 THEN brightness - 20 ELSE 100

\* base_env: the preference of the emotion, the neutral one for an emotion
\* that is no key of the preferences
BaseEnvironment(self, emotion) ==
    IF emotion \in DOMAIN self.user_profile.preferences
    THEN self.user_profile.preferences[emotion]
    ELSE self.user_profile.preferences["neutral"]

\* get_personalized_environment: the base environment with the temperature
\* and stress adjustments merged in, and a description
get_personalized_environment(self, emotion, sensor_data, watch_data) ==
    LET base_env       == BaseEnvironment(self, emotion)
        current_temp   == 10 * sensor_data.temperature
        preferred_temp ==
            self.user_profile.comfort_zones.temperature.preferred
        hot   == current_temp > preferred_temp + 20
        cold  == ~hot /\ current_temp < preferred_temp - 20
        tense == watch_data.stress_level > 70
    IN [color |->
            IF hot /\ ContainsWarming(base_env.color) THEN "calming_blue"
            ELSE IF cold /\ ContainsCooling(base_env.color) THEN "warming"
            ELSE base_env.color,
        brightness |->
            IF hot THEN HotBrightness(base_env.brightness)
            ELSE IF cold THEN ColdBrightness(base_env.brightness)
            ELSE base_env.brightness,
        audio |-> IF tense THEN "meditation_calm" ELSE base_env.audio,
        volume |->
            IF tense
            THEN IF base_env.volume + 10 < 70 THEN base_env.volume + 10 ELSE 70
            ELSE base_env.volume,
        description |-> <<"Personalized for", emotion, "Session",
                          self.user_profile.total_sessions>>]

\* the model before its constructor has run
NotConstructed == [kind |-> "not constructed"]

(***************************************************************************)
(* actuators.py                                                            *)
(***************************************************************************)
\* cabin_colors, for the schemes the callers modelled here ask for
CabinSchemes == {"cabin_day", "ocean_blue", "energizing_yellow"}

cabin_colors(scheme) ==
    CASE scheme = "cabin_day"         -> <<255, 235, 200>>
      [] scheme = "ocean_blue"        -> <<80, 200, 240>>
      [] scheme = "energizing_yellow" -> <<255, 230, 100>>

\* int(c * (brightness / 255.0)): the floor of c*brightness/255, but for the
\* one pair of these tables where the double product falls below the integer
Scale(c, brightness) ==
    IF c = 150 /\ brightness = 187 THEN 109 ELSE (c * brightness) \div 255

\* the state after ActuatorSystem.__init__; strip is None when the LED
\* hardware could not be opened
InitActuator(hasStrip) ==
    [ strip                |-> hasStrip,
      current_state        |-> [ light_color      |-> <<"OFF">>,
                                 light_mode       |-> "IDLE",
                                 audio_status     |-> <<"SILENT">>,
                                 emergency_active |-> FALSE ],
      emergency_active     |-> FALSE,
      threads              |-> [pc \in StrobePcs |-> 0],
      current_color_scheme |-> None,
      current_brightness   |-> NoneInt,
      current_audio        |-> None,
      current_volume       |-> NoneInt,
      player               |-> None ]

_color_wipe(a, name) ==
    IF ~a.strip THEN a
    ELSE [a EXCEPT !.current_state.light_color = name]

MoodColor(mode) ==
    CASE mode = "CALM"  -> <<"COOL BLUE">>
      [] mode = "WARM"  -> <<"WARM AMBER">>
      [] mode = "ALERT" -> <<"WARNING ORANGE">>
      [] OTHER          -> <<"OFF">>

\* a set_mood_lighting that records the mode only when it has a strip to write
set_mood_lighting_NeedsStrip(a, mode) ==
    IF a.emergency_active \/ ~a.strip THEN a
    ELSE _color_wipe([a EXCEPT !.current_state.light_mode = mode],
                     MoodColor(mode))

set_mood_lighting(a, mode) ==
    IF a.emergency_active THEN a
    ELSE _color_wipe([a EXCEPT !.current_state.light_mode = mode],
                     MoodColor(mode))

\* a set_cabin_lighting without the emergency test of its first line
set_cabin_lighting_NoEmergencyTest(a, color_scheme, brightness) ==
    IF a.current_color_scheme = color_scheme
       /\ a.current_brightness = brightness THEN a
    ELSE LET scheme == IF color_scheme \in CabinSchemes THEN color_scheme
                       ELSE "cabin_day"
             rgb    == cabin_colors(scheme)
         IN  IF ~a.strip THEN a
             ELSE [a EXCEPT
                     !.current_state.light_mode  = scheme,
                     !.current_state.light_color =
                         <<"RGB", Scale(rgb[1], brightness),
                           Scale(rgb[2], brightness), Scale(rgb[3], brightness)>>,
                     !.current_color_scheme = scheme,
                     !.current_brightness   = brightness]

set_cabin_lighting(a, color_scheme, brightness) ==
    IF a.emergency_active THEN a
    ELSE IF a.current_color_scheme = color_scheme
            /\ a.current_brightness = brightness THEN a
    ELSE LET scheme == IF color_scheme \in CabinSchemes THEN color_scheme
                       ELSE "cabin_day"
             rgb    == cabin_colors(scheme)
         IN  IF ~a.strip THEN a
             ELSE [a EXCEPT
                     !.current_state.light_mode  = scheme,
                     !.current_state.light_color =
                         <<"RGB", Scale(rgb[1], brightness),
                           Scale(rgb[2], brightness), Scale(rgb[3], brightness)>>,
                     !.current_color_scheme = scheme,
                     !.current_brightness   = brightness]

\* the audio files
BEEP_FILE == "data/alert.mp3"
CALM_FILE == "data/calm.mp3"

\* ActuatorSystem.sound_profiles
sound_profiles ==
    [calming_deep        |-> "data/meditation.mp3",
     nature_calm         |-> "data/ocean_waves.mp3",
     ambient_soft        |-> "data/calm.mp3",
     white_noise_cooling |-> "data/ocean_waves.mp3",
     alert               |-> BEEP_FILE,
     ocean_waves         |-> "data/ocean_waves.mp3",
     fireplace_crackling |-> "data/fireplace.mp3",
     uplifting_ambient   |-> "data/uplifting.mp3",
     meditation_calm     |-> "data/meditation.mp3"]

\* a mapping that has no file for a sound type it does not know
audio_file_Known(sound_type) ==
    IF sound_type \in DOMAIN sound_profiles THEN sound_profiles[sound_type]
    ELSE IF sound_type = "BEEP" THEN BEEP_FILE
    ELSE IF sound_type = "CALM" THEN CALM_FILE
    ELSE None

\* the file play_sound hands to mpg123 for a sound type, the audio files of
\* sound_profiles being installed
audio_file(sound_type) ==
    IF sound_type \in DOMAIN sound_profiles THEN sound_profiles[sound_type]
    ELSE IF sound_type = "BEEP" THEN BEEP_FILE
    ELSE IF sound_type = "CALM" THEN CALM_FILE
    ELSE CALM_FILE

\* player is the file the mpg123 process plays, None when there is none
play_sound(a, sound_type, volume) ==
    IF a.current_audio = sound_type /\ a.current_volume = volume THEN a
    ELSE [a EXCEPT !.current_state.audio_status = <<"PLAYING", sound_type>>,
                   !.player         = audio_file(sound_type),
                   !.current_audio  = sound_type,
                   !.current_volume = volume]

\* whether set_cabin_lighting writes the LED strip (setPixelColor and show):
\* it does unless it returns at the emergency test, at the "same as current"
\* test or for want of a strip
strip_shown(a, color_scheme, brightness) ==
    /\ ~a.emergency_active
    /\ ~(a.current_color_scheme = color_scheme
         /\ a.current_brightness = brightness)
    /\ a.strip

\* whether play_sound kills the mpg123 process and starts a new one: it does
\* unless it returns at the "same as current" test
player_restarted(a, sound_type, volume) ==
    ~(a.current_audio = sound_type /\ a.current_volume = volume)

stop_sound(a) ==
    LET b == IF a.current_audio # None
             THEN [a EXCEPT !.current_audio = None, !.current_volume = NoneInt]
             ELSE a
    IN  [b EXCEPT !.current_state.audio_status = <<"SILENT">>,
                  !.player = None]

\* the threads are anonymous: threads[pc] counts those at position pc
NumStrobes(a) == SumOver(a.threads, StrobePcs)

HasFreeSlot(a) == NumStrobes(a) < MaxStrobe

\* a started _emergency_loop thread is about to test its while condition
StartStrobe(a) == [a EXCEPT !.threads["check"] = @ + 1]

\* mutant: activation without the "if not self.emergency_active" test
activate_emergency_protocol_NoGuard(a, active) ==
    IF active
    THEN StartStrobe([a EXCEPT !.emergency_active = TRUE,
                               !.current_state.emergency_active = TRUE,
                               !.current_state.light_mode = "EMERGENCY"])
    ELSE set_mood_lighting([a EXCEPT !.emergency_active = FALSE,
                                     !.current_state.emergency_active = FALSE],
                           "WARM")

activate_emergency_protocol(a, active) ==
    IF active
    THEN IF ~a.emergency_active
         THEN StartStrobe([a EXCEPT !.emergency_active = TRUE,
                                    !.current_state.emergency_active = TRUE,
                                    !.current_state.light_mode = "EMERGENCY"])
         ELSE a
    ELSE set_mood_lighting([a EXCEPT !.emergency_active = FALSE,
                                     !.current_state.emergency_active = FALSE],
                           "WARM")

cleanup(a) ==
    LET b == stop_sound(a)
    IN  [b EXCEPT !.current_color_scheme = None,
                  !.current_brightness   = NoneInt,
                  !.current_audio        = None]

\* one step of an _emergency_loop thread that is at position pc: the while
\* test, the ON half (red wipe and beep, then sleep) or the OFF half (wipe,
\* then sleep)
emergency_loop_step(a, pc) ==
    CASE pc = "check" ->
            IF a.emergency_active
            THEN [a EXCEPT !.threads["check"] = @ - 1, !.threads["on"] = @ + 1]
            ELSE [a EXCEPT !.threads["check"] = @ - 1]
      [] pc = "on" ->
            [play_sound(_color_wipe(a, <<"RED STROBE">>), "BEEP", 50)
                EXCEPT !.threads["on"] = @ - 1, !.threads["off"] = @ + 1]
      [] pc = "off" ->
            [_color_wipe(a, <<"OFF">>)
                EXCEPT !.threads["off"] = @ - 1, !.threads["check"] = @ + 1]

\* an operation is logged after the one before it
Log(op) == ops' = <<ops[2], op>>

(***************************************************************************)
(* main_controller.py: the controller, its MQTT callback and its loop      *)
(***************************************************************************)
\* get_emotion_based_lighting: an emotion is recent within the last 10 s
emotion_window == 10

\* MainController.emotion_lighting
emotion_lighting ==
    [happy    |-> [color |-> "cabin_evening",   brightness |-> 180],
     neutral  |-> [color |-> "cabin_day",       brightness |-> 130],
     sad      |-> [color |-> "warming_intense", brightness |-> 200],
     angry    |-> [color |-> "cooling_intense", brightness |-> 180],
     fear     |-> [color |-> "calming_soft",    brightness |-> 220],
     surprise |-> [color |-> "neutral_warm",    brightness |-> 160],
     disgust  |-> [color |-> "nature_green",    brightness |-> 150]]

\* the fields of a MainController that __init__ sets and the threads share;
\* previous_comfort_score is in tenths of a point
InitController ==
    [running                |-> FALSE,
     mqtt_connected         |-> FALSE,
     current_emotion        |-> "neutral",
     last_emotion_time      |-> StartTime,
     previous_comfort_score |-> 500]

\* the payload of a mood message as json.loads decodes it
NotJson        == [type |-> "undecodable"]
JsonList       == [type |-> "list"]
JsonDict(items) == [type |-> "dict", items |-> items]

\* dict.get(key): the value of the key, None for a key the dict lacks
dict_get(d, key) ==
    IF \E item \in d.items : item[1] = key
    THEN (CHOOSE item \in d.items : item[1] = key)[2]
    ELSE None

\* what no mood message has been received looks like
NoMessage == [kind |-> "no message"]

\* an on_mqtt_message that stores an emotion only when the payload has one
on_mqtt_message_DropsMissing(self, payload, t) ==
    IF payload.type = "dict" /\ dict_get(payload, "emotion") # None
    THEN [self EXCEPT !.current_emotion = dict_get(payload, "emotion"),
                      !.last_emotion_time = t]
    ELSE self

\* on_mqtt_message at time t: json.loads raises JSONDecodeError on a payload
\* that is no JSON, payload.get raises AttributeError on a JSON value that
\* is no object, and both are caught; otherwise the two fields are assigned
on_mqtt_message(self, payload, t) ==
    IF payload.type = "dict"
    THEN [self EXCEPT !.current_emotion = dict_get(payload, "emotion"),
                      !.last_emotion_time = t]
    ELSE self

\* a get_emotion_based_lighting that takes the emotion as it is
FreshEmotion_NoWindow(self, t) == self.current_emotion

\* the emotion get_emotion_based_lighting goes by at time t
FreshEmotion(self, t) ==
    IF t - self.last_emotion_time > emotion_window THEN "neutral"
    ELSE self.current_emotion

\* get_emotion_based_lighting at time t
get_emotion_based_lighting(self, t) ==
    LET emotion == FreshEmotion(self, t)
    IN IF emotion \in DOMAIN emotion_lighting THEN emotion_lighting[emotion]
       ELSE emotion_lighting["neutral"]

\* abs(None - preferred) in get_comfort_score raises TypeError
ComfortScoreRaises(sensor_data) ==
    \/ sensor_data.temperature = NoneInt
    \/ sensor_data.humidity = NoneInt

\* control_loop learns from the session every 100 iterations
learn_every == 100

\* learn_from_session run to its end: the model and the data file it leaves
learn_from_session(self, file) ==
    IF TooFewEntries(self) THEN {[self |-> self, file |-> file]}
    ELSE UNION {
           { [self |-> after_save([self EXCEPT !.user_profile = p]),
              file |-> CompleteFile(p)],
             [self |-> after_failed_save([self EXCEPT !.user_profile = p]),
              file |-> file],
             [self |-> after_failed_save([self EXCEPT !.user_profile = p]),
              file |-> EmptyFile],
             [self |-> after_failed_save([self EXCEPT !.user_profile = p]),
              file |-> PartialFile] } : p \in LearnedProfiles(self) }

(***************************************************************************)
(* config.py and the escalation state machine.  The thresholds are set in  *)
(* config.py; the loop that compares the risk score with them and drives   *)
(* the actuators is not among the source files, and is taken from section  *)
(* 4.5 of the specification.                                               *)
(***************************************************************************)
FATIGUE_THRESHOLD_WARNING  == 50
FATIGUE_THRESHOLD_CRITICAL == 80
\* TEMP_THRESHOLD_HOT = 28.0
TEMP_THRESHOLD_HOT == 28

\* the system status for a risk score
system_status(risk) ==
    IF risk > FATIGUE_THRESHOLD_CRITICAL THEN "EMERGENCY"
    ELSE IF risk > FATIGUE_THRESHOLD_WARNING THEN "WARNING"
    ELSE "NORMAL"

\* the comfort mode of NORMAL: the cooling preset above the hot threshold,
\* the warm preset otherwise
comfort_mode(temperature) ==
    IF temperature > TEMP_THRESHOLD_HOT THEN "CALM" ELSE "WARM"

\* the actuator calls of one tick of the state machine
drive_actuators(a, risk, temperature) ==
    CASE system_status(risk) = "EMERGENCY" ->
            activate_emergency_protocol(a, TRUE)
      [] system_status(risk) = "WARNING" ->
            set_mood_lighting(activate_emergency_protocol(a, FALSE), "ALERT")
      [] system_status(risk) = "NORMAL" ->
            set_mood_lighting(activate_emergency_protocol(a, FALSE),
                              comfort_mode(temperature))

\* no tick of the state machine has run
NoTick == [kind |-> "no tick"]

(***************************************************************************)
(* data_generator.py: SmartWatchSimulator.  Heart rates are whole numbers  *)
(* (round(x)), stress levels are kept in tenths (round(x, 1)); what        *)
(* random.gauss, random.random and random.randint return is an input of    *)
(* get_data.  The sums before rounding are kept in thousandths.            *)
(***************************************************************************)
\* get_data calls made on one simulator
MaxTicks == 3

\* SmartWatchSimulator.scenarios, by StressScenario
Scenarios == {"NORMAL", "MODERATE", "BAD"}

scenarios(scenario) ==
    CASE scenario = "NORMAL" ->
            [heart_rate_base |-> 72, heart_rate_variance |-> 8,
             stress_level_base |-> 25, stress_level_variance |-> 10]
      [] scenario = "MODERATE" ->
            [heart_rate_base |-> 95, heart_rate_variance |-> 12,
             stress_level_base |-> 60, stress_level_variance |-> 15]
      [] scenario = "BAD" ->
            [heart_rate_base |-> 115, heart_rate_variance |-> 18,
             stress_level_base |-> 85, stress_level_variance |-> 10]

\* math.sin(time_offset * 0.1) * 5, in thousandths
circadian(time_offset) ==
    CASE time_offset = 0 -> 0
      [] time_offset = 1 -> 499
      [] time_offset = 2 -> 993
      [] time_offset = 3 -> 1478
      [] time_offset = 4 -> 1947
      [] time_offset = 5 -> 2397
      [] time_offset = 6 -> 2823
      [] time_offset = 7 -> 3221
      [] time_offset = 8 -> 3587

\* random.gauss(0, variance / 2) in units of its sigma: the mean, one sigma
\* either way, and the far tails
GaussDraws == {0 - 8, 0 - 1, 0, 1, 8}
\* the spike: none (random.random() >= 0.05), or random.randint(5, 15)
SpikeDraws == {0, 5, 15}
\* what the random module returns in one get_data call
Draws == [hr : GaussDraws, spike : SpikeDraws, stress : GaussDraws]

\* max(lo, min(hi, x))
Clamp(lo, hi, x) == IF x > hi THEN hi ELSE IF x < lo THEN lo ELSE x

\* what generate_heart_rate adds to the base and the circadian term, in
\* thousandths of a beat
heart_rate_noise(scenario, d) ==
    d.hr * scenarios(scenario).heart_rate_variance * 500 + d.spike * 1000

generate_heart_rate(self, scenario, d) ==
    RoundHalfEven(Clamp(50000, 180000,
                        scenarios(scenario).heart_rate_base * 1000
                        + circadian(self.time_offset)
                        + heart_rate_noise(scenario, d)),
                  1000)

\* random_variation of generate_stress_level, in tenths
stress_noise(scenario, d) ==
    d.stress * scenarios(scenario).stress_level_variance * 5

\* a stress level that is the base of the scenario whatever the heart rate
generate_stress_level_Flat(scenario, heart_rate, d) ==
    Clamp(0, 1000, scenarios(scenario).stress_level_base * 10
                   + stress_noise(scenario, d))

\* in tenths
generate_stress_level(scenario, heart_rate, d) ==
    Clamp(0, 1000, scenarios(scenario).stress_level_base * 10
                   + (heart_rate - 70) * 3
                   + stress_noise(scenario, d))

get_stress_category(stress_level) ==
    IF stress_level < 400 THEN "low"
    ELSE IF stress_level < 700 THEN "moderate"
    ELSE "high"

\* SmartWatchSimulator.__init__; data is what get_data last returned
NoData == [kind |-> "no data"]

InitWatch ==
    [current_scenario |-> "NORMAL", time_offset |-> 0, data |-> NoData]

\* get_data: the data it returns (with the draws that went into it) and
\* the simulator after it
get_data(self, d) ==
    LET heart_rate   == generate_heart_rate(self, self.current_scenario, d)
        stress_level == generate_stress_level(self.current_scenario,
                                              heart_rate, d)
    IN  [self EXCEPT
            !.time_offset = @ + 1,
            !.data = [kind            |-> "data",
                      heart_rate      |-> heart_rate,
                      stress_level    |-> stress_level,
                      stress_category |-> get_stress_category(stress_level),
                      scenario        |-> self.current_scenario,
                      hr_noise        |-> heart_rate_noise(self.current_scenario, d),
                      stress_noise    |-> stress_noise(self.current_scenario, d)]]

\* set_scenario: a value that is no StressScenario is refused
set_scenario(self, scenario) ==
    IF scenario \in Scenarios THEN [self EXCEPT !.current_scenario = scenario]
    ELSE self

(***************************************************************************)
(* The actuator system under an arbitrary caller.                          *)
(***************************************************************************)
MoodModes  == {"CALM", "WARM", "ALERT", "OFF"}
CallLights == {<<"ocean_blue", 180>>, <<"energizing_yellow", 220>>,
               <<"no_such_scheme", 150>>}
CallSounds == {<<"ocean_waves", 35>>, <<"rock", 60>>, <<"BEEP", 50>>}

\* MainController.__init__ has run; start() has not been called, no mood
\* message has arrived
InitMain ==
    /\ mc = InitController
    /\ controlPc = "not started"
    /\ iteration = 0
    /\ callerPc = "constructed"
    /\ mood = NoMessage
    /\ delivered = 0
    /\ lighting = NotCalled
    /\ escalation = NoTick
    /\ watch = InitWatch
    /\ summary = NotCalled

\* the actuator system, the alert system and the controller, as constructed
InitControl ==
    /\ \E hasStrip \in BOOLEAN : act = InitActuator(hasStrip)
    /\ ops = <<"new", "new">>
    /\ alert_active = FALSE
    /\ alert_acknowledged = FALSE
    /\ current_alert_type = None
    /\ drowsiness_data = [alert |-> ""]
    /\ running = FALSE
    /\ normal_mode_active = TRUE
    /\ mainPc = "constructed"
    /\ mqttPc = "idle"
    /\ ackPc = [pc \in AckPcs |-> 0]
    /\ last_call = "new"
    /\ InitMain

\* the second decision model, the clock and what is remembered of the calls
InitDecisionLog ==
    /\ twin = InitModel
    /\ now = StartTime
    /\ decision = NotCalled
    /\ twin_decision = NotCalled
    /\ called_at = [time |-> NoneInt, samples |-> 0]
    /\ accepted_at = NoneInt
    /\ prior = <<NoneInt, NoneInt>>

\* no tick of the control loop has run
InitTick ==
    /\ reading = NoReading
    /\ discomfort = NotScored

\* PersonalizationModel.__init__ for a new user: no data file, so the
\* default profile; nothing learned, saved or read yet
InitLearning ==
    /\ savePc = "idle"
    /\ observed = NotRead
    /\ learned = NotLearned
    /\ recorded = 0
    /\ requested = DefaultProfile.user_id
    /\ comfort = NoScore
    /\ personalized = NoEnvironment

InitProfile ==
    /\ pm = ModelWith(DefaultProfile)
    /\ data_file = NoFile
    /\ InitLearning

\* every object but the decision model, as constructed
InitExceptModel ==
    /\ InitControl
    /\ InitDecisionLog
    /\ InitTick
    /\ InitProfile

Init ==
    /\ InitExceptModel
    /\ dm = InitModel

CallActivate ==
    /\ act.emergency_active \/ HasFreeSlot(act)
    /\ act' = activate_emergency_protocol(act, TRUE)
    /\ Log("activate")
    /\ UNCHANGED <<alertVars, decVars, restVars>>

CallDeactivate ==
    /\ act' = activate_emergency_protocol(act, FALSE)
    /\ Log("deactivate")
    /\ UNCHANGED <<alertVars, decVars, restVars>>

CallSetMoodLighting ==
    \E mode \in MoodModes :
        /\ act' = set_mood_lighting(act, mode)
        /\ Log("set_mood_lighting")
        /\ UNCHANGED <<alertVars, decVars, restVars>>

CallSetCabinLighting ==
    \E c \in CallLights :
        /\ act' = set_cabin_lighting(act, c[1], c[2])
        /\ Log("set_cabin_lighting")
        /\ UNCHANGED <<alertVars, decVars, restVars>>

CallPlaySound ==
    \E s \in CallSounds :
        /\ act' = play_sound(act, s[1], s[2])
        /\ Log("play_sound")
        /\ UNCHANGED <<alertVars, decVars, restVars>>

CallStopSound ==
    /\ act' = stop_sound(act)
    /\ Log("stop_sound")
    /\ UNCHANGED <<alertVars, decVars, restVars>>

StrobeStep ==
    \E pc \in StrobePcs :
        /\ act.threads[pc] > 0
        /\ act' = emergency_loop_step(act, pc)
        /\ UNCHANGED ops
        /\ UNCHANGED <<alertVars, decVars, restVars>>

NextAct ==
    \/ CallActivate
    \/ CallDeactivate
    \/ CallSetMoodLighting
    \/ CallSetCabinLighting
    \/ CallPlaySound
    \/ CallStopSound
    \/ StrobeStep

SpecAct == Init /\ [][NextAct]_vars

(***************************************************************************)
(* alert.py: RealTimeAlertSystem.  Its threads are the main thread (start, *)
(* stop), the MQTT network thread (on_mqtt_message, trigger_alert), the    *)
(* monitoring thread and one wait_for_acknowledgment thread per alert.  A  *)
(* thread takes one step from one time.sleep or blocking call to the next. *)
(* Sensor and smartwatch readings are only printed, and monitoring_loop's  *)
(* iteration counts the printing: they are left out.                       *)
(***************************************************************************)
AlertFlags == {"", "prolonged_yawn", "prolonged_microsleep"}

\* mutant: the test without "not self.alert_active"
ShouldTrigger_NoGuard(alert_type, active) ==
    alert_type \in {"prolonged_microsleep"}

\* the test of on_mqtt_message that guards trigger_alert
ShouldTrigger(alert_type, active) ==
    alert_type \in {"prolonged_microsleep"} /\ ~active

\* start_normal_mode up to its sleep, and from its sleep on
start_normal_mode_stop(a) == stop_sound(a)

start_normal_mode_set(a) ==
    play_sound(set_cabin_lighting(a, "ocean_blue", 180), "ocean_waves", 35)

\* activate_anti_fatigue_mode: stopping the emergency, then the energizing mode
anti_fatigue_stop(a) == stop_sound([a EXCEPT !.emergency_active = FALSE])

anti_fatigue_energize(a) ==
    play_sound(set_cabin_lighting(a, "energizing_yellow", 220), "rock", 60)

\* mutant: the thread ends without start_normal_mode
ReturnsToNormal_Never(active) == FALSE

\* after the 30 s of anti-fatigue mode: back to normal mode, or not
ReturnsToNormal(active) == ~active

\* mutant: a pass clears the alert when the last drowsiness data is benign
monitoring_pass_SelfClear(active, flag) == active /\ flag # ""

\* what monitoring_loop does to the alert flag in one pass: nothing
monitoring_pass(active, flag) == active

NumAcks == SumOver(ackPc, AckPcs)

HasFreeAck == NumAcks < MaxAck

\* one acknowledgment thread moves from position p to position q, or ends
MoveAck(p, q) ==
    IF q = "end" THEN [ackPc EXCEPT ![p] = @ - 1]
    ELSE [ackPc EXCEPT ![p] = @ - 1, ![q] = @ + 1]

Called(m) == last_call' = m

\* start(): running is set and start_normal_mode runs up to its sleep
Start ==
    /\ mainPc = "constructed"
    /\ ~running
    /\ running' = TRUE
    /\ act' = start_normal_mode_stop(act)
    /\ mainPc' = "starting"
    /\ UNCHANGED <<restVars, decVars, ops, alert_active, alert_acknowledged, current_alert_type,
                   drowsiness_data, normal_mode_active, mqttPc, ackPc, last_call>>

\* start(): the rest of start_normal_mode, then the monitoring thread starts
StartNormal ==
    /\ mainPc = "starting"
    /\ act' = start_normal_mode_set(act)
    /\ normal_mode_active' = TRUE
    /\ mainPc' = "started"
    /\ Called("start_normal_mode")
    /\ UNCHANGED <<restVars, decVars, ops, alert_active, alert_acknowledged, current_alert_type,
                   drowsiness_data, running, mqttPc, ackPc>>

\* one pass of monitoring_loop
MonitorTick ==
    /\ mainPc \in {"started", "stopping"}
    /\ running
    /\ alert_active' = monitoring_pass(alert_active, drowsiness_data.alert)
    /\ UNCHANGED <<restVars, decVars, act, ops, alert_acknowledged, current_alert_type,
                   drowsiness_data, running, normal_mode_active, mainPc,
                   mqttPc, ackPc, last_call>>

\* on_mqtt_message with a decodable payload; when it triggers, trigger_alert
\* runs up to its sleep
OnMqttMessage ==
    \E flag \in AlertFlags :
        /\ mqttPc = "idle"
        /\ mainPc # "stopped"
        /\ drowsiness_data' = [alert |-> flag]
        /\ IF ShouldTrigger(flag, alert_active)
           THEN /\ alert_active' = TRUE
                /\ alert_acknowledged' = FALSE
                /\ current_alert_type' = flag
                /\ normal_mode_active' = FALSE
                /\ act' = stop_sound(act)
                /\ mqttPc' = "trigger"
                /\ Called("trigger_alert")
           ELSE /\ Called("on_mqtt_message")
                /\ UNCHANGED <<act, alert_active, alert_acknowledged,
                               current_alert_type, normal_mode_active, mqttPc>>
        /\ UNCHANGED <<restVars, decVars, ops, running, mainPc, ackPc>>

\* on_mqtt_message with a payload that does not decode: the exception is
\* caught before anything is assigned
OnMqttMalformed ==
    /\ mqttPc = "idle"
    /\ mainPc # "stopped"
    /\ UNCHANGED vars

\* trigger_alert from its sleep on: the emergency protocol and the
\* acknowledgment thread
TriggerEmergency ==
    /\ mqttPc = "trigger"
    /\ act.emergency_active \/ HasFreeSlot(act)
    /\ HasFreeAck
    /\ act' = activate_emergency_protocol(act, TRUE)
    /\ ackPc' = [ackPc EXCEPT !["wait"] = @ + 1]
    /\ mqttPc' = "idle"
    /\ UNCHANGED <<restVars, decVars, ops, alert_active, alert_acknowledged, current_alert_type,
                   drowsiness_data, running, normal_mode_active, mainPc,
                   last_call>>

\* the acknowledgment event: input() returns in one waiting thread
Acknowledge ==
    /\ ackPc["wait"] > 0
    /\ alert_acknowledged' = TRUE
    /\ ackPc' = MoveAck("wait", "acked")
    /\ UNCHANGED <<restVars, decVars, act, ops, alert_active, current_alert_type, drowsiness_data,
                   running, normal_mode_active, mainPc, mqttPc, last_call>>

\* activate_anti_fatigue_mode after its first sleep: the emergency is stopped
AntiFatigueStop ==
    /\ ackPc["acked"] > 0
    /\ act' = anti_fatigue_stop(act)
    /\ ackPc' = MoveAck("acked", "energize")
    /\ UNCHANGED <<restVars, decVars, ops, alert_active, alert_acknowledged, current_alert_type,
                   drowsiness_data, running, normal_mode_active, mainPc, mqttPc,
                   last_call>>

\* the energizing mode is set and the alert state reset; then 30 s of sleep
AntiFatigueEnergize ==
    /\ ackPc["energize"] > 0
    /\ act' = anti_fatigue_energize(act)
    /\ alert_active' = FALSE
    /\ current_alert_type' = None
    /\ ackPc' = MoveAck("energize", "recovery")
    /\ UNCHANGED <<restVars, decVars, ops, alert_acknowledged, drowsiness_data, running,
                   normal_mode_active, mainPc, mqttPc, last_call>>

\* after the 30 s: start_normal_mode up to its sleep if no new alert came
RecoveryEnds ==
    /\ ackPc["recovery"] > 0
    /\ IF ReturnsToNormal(alert_active)
       THEN /\ act' = start_normal_mode_stop(act)
            /\ ackPc' = MoveAck("recovery", "normal")
       ELSE /\ ackPc' = MoveAck("recovery", "end")
            /\ UNCHANGED act
    /\ UNCHANGED <<restVars, decVars, ops, alert_active, alert_acknowledged, current_alert_type,
                   drowsiness_data, running, normal_mode_active, mainPc, mqttPc,
                   last_call>>

\* the rest of start_normal_mode; the acknowledgment thread ends
BackToNormal ==
    /\ ackPc["normal"] > 0
    /\ act' = start_normal_mode_set(act)
    /\ normal_mode_active' = TRUE
    /\ ackPc' = MoveAck("normal", "end")
    /\ Called("start_normal_mode")
    /\ UNCHANGED <<restVars, decVars, ops, alert_active, alert_acknowledged, current_alert_type,
                   drowsiness_data, running, mainPc, mqttPc>>

\* stop() up to its joins: the flags are cleared
Stop ==
    /\ mainPc \in {"starting", "started"}
    /\ running' = FALSE
    /\ alert_active' = FALSE
    /\ act' = [act EXCEPT !.emergency_active = FALSE]
    /\ mainPc' = "stopping"
    /\ UNCHANGED <<restVars, decVars, ops, alert_acknowledged, current_alert_type,
                   drowsiness_data, normal_mode_active, mqttPc, ackPc, last_call>>

\* a stop() that also waits for the acknowledgment threads
StopCleanup_JoinsAck ==
    /\ mainPc = "stopping"
    /\ mqttPc = "idle"
    /\ ackPc["wait"] = 0
    /\ act' = cleanup(act)
    /\ mainPc' = "stopped"
    /\ UNCHANGED <<restVars, decVars, ops, alert_active, alert_acknowledged, current_alert_type,
                   drowsiness_data, running, normal_mode_active, mqttPc, ackPc,
                   last_call>>

\* stop() after the MQTT thread is joined: cleanup
StopCleanup ==
    /\ mainPc = "stopping"
    /\ mqttPc = "idle"
    /\ act' = cleanup(act)
    /\ mainPc' = "stopped"
    /\ UNCHANGED <<restVars, decVars, ops, alert_active, alert_acknowledged, current_alert_type,
                   drowsiness_data, running, normal_mode_active, mqttPc, ackPc,
                   last_call>>

NextAlert ==
    \/ Start
    \/ StartNormal
    \/ MonitorTick
    \/ OnMqttMessage
    \/ OnMqttMalformed
    \/ TriggerEmergency
    \/ Acknowledge
    \/ AntiFatigueStop
    \/ AntiFatigueEnergize
    \/ RecoveryEnds
    \/ BackToNormal
    \/ StrobeStep
    \/ Stop
    \/ StopCleanup

SpecAlert == Init /\ [][NextAlert]_vars

\* The alert system while it keeps running (no stop()), with its
\* acknowledgment threads scheduled: a thread that is past input() takes its
\* next step when its sleep is over.  stop() makes running false for good.
NextAlertRunning ==
    \/ Start
    \/ StartNormal
    \/ MonitorTick
    \/ OnMqttMessage
    \/ OnMqttMalformed
    \/ TriggerEmergency
    \/ Acknowledge
    \/ AntiFatigueStop
    \/ AntiFatigueEnergize
    \/ RecoveryEnds
    \/ BackToNormal
    \/ StrobeStep

SpecAlertFair ==
    /\ Init
    /\ [][NextAlertRunning]_vars
    /\ WF_vars(AntiFatigueStop)
    /\ WF_vars(AntiFatigueEnergize)
    /\ WF_vars(RecoveryEnds)
    /\ WF_vars(BackToNormal)

(***************************************************************************)
(* The decision model and its caller: samples are added, make_decision is  *)
(* called, and time passes between the calls.                              *)
(***************************************************************************)
\* the decision model never touches the actuators: one actuator is enough
InitDecision == Init /\ act = InitActuator(TRUE)

\* add_data_point with one of the samples
AddDataPoint ==
    \E s \in Samples :
        /\ Len(dm.stress_buffer) < MaxSamples
        /\ dm' = add_data_point(dm, s.sensor_data, s.watch_data, s.emotion)
        /\ UNCHANGED <<twin, now, decision, twin_decision, called_at,
                       accepted_at, prior, act, ops, alertVars, restVars>>

\* add_data_point with what SensorManager.read_all() returned
AddSensorReading ==
    \E s \in SensorSamples :
        /\ Len(dm.stress_buffer) < MaxSamples
        /\ dm' = add_data_point(dm, s.sensor_data, s.watch_data, s.emotion)
        /\ UNCHANGED <<twin, now, decision, twin_decision, called_at,
                       accepted_at, prior, act, ops, alertVars, restVars>>

\* make_decision on the model
MakeDecision ==
    \E r \in {make_decision(dm, now)} :
       /\ dm' = r.self
       /\ decision' = r.ret
       /\ called_at' = [time |-> now, samples |-> Len(dm.stress_buffer)]
       /\ accepted_at' = IF r.ret.kind = "decision" THEN now ELSE accepted_at
       /\ UNCHANGED <<twin, now, twin_decision, prior, act, ops, alertVars, restVars>>

\* the caller sleeps
Tick ==
    \E d \in Delays :
        /\ now + d <= StartTime + MaxElapsed
        /\ now' = now + d
        /\ UNCHANGED <<dm, twin, decision, twin_decision, called_at,
                       accepted_at, prior, act, ops, alertVars, restVars>>

NextDecision ==
    \/ AddDataPoint
    \/ AddSensorReading
    \/ MakeDecision
    \/ Tick

SpecDecision == InitDecision /\ [][NextDecision]_vars

(***************************************************************************)
(* Two decision models fed with the same samples. The first is also called *)
(* on its own, so the two differ in what they decided before.              *)
(***************************************************************************)
\* the same sample goes to both models
TwinAdd ==
    \E s \in Samples :
        /\ Len(dm.stress_buffer) < MaxSamples
        /\ dm'   = add_data_point(dm, s.sensor_data, s.watch_data, s.emotion)
        /\ twin' = add_data_point(twin, s.sensor_data, s.watch_data, s.emotion)
        /\ UNCHANGED <<now, decision, twin_decision, called_at, accepted_at,
                       prior, act, ops, alertVars, restVars>>

\* make_decision on both models at the same time
TwinDecide ==
    \E r \in {make_decision(dm, now)}, q \in {make_decision(twin, now)} :
       /\ dm' = r.self
       /\ decision' = r.ret
       /\ twin' = q.self
       /\ twin_decision' = q.ret
       /\ prior' = <<dm.last_decision_time, twin.last_decision_time>>
       /\ called_at' = [time |-> now, samples |-> Len(dm.stress_buffer)]
       /\ accepted_at' = IF r.ret.kind = "decision" THEN now ELSE accepted_at
       /\ UNCHANGED <<now, act, ops, alertVars, restVars>>

NextTwin ==
    \/ TwinAdd
    \/ MakeDecision
    \/ TwinDecide
    \/ Tick

SpecTwin == InitDecision /\ [][NextTwin]_vars

(***************************************************************************)
(* make_decision on a window of samples: the decision model as it is after *)
(* the caller has added five equal samples and, possibly, one more.        *)
(***************************************************************************)
\* the samples of a window: every stress band, the emotions the scoring
\* table tells apart, every temperature band and both heart-rate bands
WindowSamples ==
    { [sensor_data |-> [temperature |-> t, humidity |-> 50,
                        air_quality |-> <<"ppm", 50>>],
       watch_data  |-> [heart_rate |-> h, stress_level |-> s],
       emotion     |-> e] :
      t \in {18, 22, 28}, h \in {72, 110}, s \in {20, 40, 60, 80},
      e \in {"neutral", "angry", "sad", "fear", "happy"} }

RECURSIVE AddTimes(_, _, _)
\* add_data_point called n times with the sample s
AddTimes(m, s, n) ==
    IF n = 0 THEN m
    ELSE AddTimes(add_data_point(m, s.sensor_data, s.watch_data, s.emotion),
                  s, n - 1)

InitWindow ==
    /\ InitExceptModel
    /\ act = InitActuator(TRUE)
    /\ \E base \in WindowSamples, last \in WindowSamples, more \in 0..1 :
          dm = AddTimes(AddTimes(InitModel, base, MinSamples), last, more)

NextWindow ==
    \/ MakeDecision
    \/ Tick

SpecWindow == InitWindow /\ [][NextWindow]_vars

(***************************************************************************)
(* make_decision on a window of high stress: five equal samples and,       *)
(* possibly, one more, so that the mean stress is above 70 with a stable,  *)
(* an increasing and a decreasing trend.                                   *)
(***************************************************************************)
StressSamples ==
    { [sensor_data |-> [temperature |-> t, humidity |-> 50,
                        air_quality |-> <<"ppm", 50>>],
       watch_data  |-> [heart_rate |-> h, stress_level |-> s],
       emotion     |-> e] :
      t \in {18, 22, 28}, h \in {72, 110}, s \in {60, 80, 100},
      e \in {"neutral", "angry", "sad", "fear", "happy"} }

InitStress ==
    /\ InitExceptModel
    /\ act = InitActuator(TRUE)
    /\ \E base \in StressSamples, last \in StressSamples, more \in 0..1 :
          dm = AddTimes(AddTimes(InitModel, base, MinSamples), last, more)

SpecStress == InitStress /\ [][NextWindow]_vars

(***************************************************************************)
(* The discomfort scorer: a tick has read the sensors, the watch and the    *)
(* current emotion, and the reading is scored.                             *)
(***************************************************************************)
\* the readings of a tick: on and around every threshold
Readings ==
    { [taken |-> TRUE,
       sensor_data |-> [temperature |-> t, humidity |-> h, air_quality |-> q],
       watch_data  |-> [heart_rate |-> b, stress_level |-> s],
       current_emotion |-> e] :
      t \in {15, 16, 20, 23, 26, 30, 31}, h \in {25, 30, 50, 70, 75},
      q \in {50, 250, 350}, b \in {70, 105, 120}, s \in {30, 50, 80, 90},
      e \in {"neutral", "happy", "angry", "sad"} }

\* a tick has read the sensors, the watch and the current emotion
InitScorer ==
    /\ InitControl
    /\ act = InitActuator(TRUE)
    /\ InitDecisionLog
    /\ dm = InitModel
    /\ reading \in Readings
    /\ discomfort = NotScored
    /\ InitProfile

\* calculate_discomfort_score on the reading of the tick
CalculateDiscomfort ==
    /\ reading.taken
    /\ discomfort' = calculate_discomfort_score(reading.sensor_data,
                                                reading.watch_data,
                                                reading.current_emotion)
    /\ UNCHANGED <<reading, pmVars, queryVars, decVars, ctlVars, act, ops, alertVars,
                   simVars>>

NextScorer == CalculateDiscomfort

SpecScorer == InitScorer /\ [][NextScorer]_vars

(***************************************************************************)
(* The personalization model: feedback is recorded, learn_from_session is  *)
(* called, save_profile writes the data file in steps, and another process *)
(* reads the file.                                                         *)
(***************************************************************************)
\* the record_feedback calls: the environment is one the decision model
\* chose, the emotion a key of the preferences
FeedbackCalls ==
    { [emotion |-> "happy", environment_state |-> environment_map("energizing"),
       sensor_data |-> [temperature |-> 22, humidity |-> 45,
                        air_quality |-> <<"ppm", 50>>],
       watch_data |-> [heart_rate |-> 72, stress_level |-> 30],
       comfort_improved |-> TRUE],
      [emotion |-> "happy", environment_state |-> environment_map("deep_relax"),
       sensor_data |-> [temperature |-> 24, humidity |-> 50,
                        air_quality |-> <<"ppm", 50>>],
       watch_data |-> [heart_rate |-> 72, stress_level |-> 30],
       comfort_improved |-> TRUE],
      [emotion |-> "happy", environment_state |-> environment_map("calming_cool"),
       sensor_data |-> [temperature |-> 25, humidity |-> 55,
                        air_quality |-> <<"ppm", 50>>],
       watch_data |-> [heart_rate |-> 90, stress_level |-> 60],
       comfort_improved |-> FALSE],
      [emotion |-> "sad", environment_state |-> environment_map("calming_cool"),
       sensor_data |-> [temperature |-> 22, humidity |-> 45,
                        air_quality |-> <<"ppm", 50>>],
       watch_data |-> [heart_rate |-> 72, stress_level |-> 30],
       comfort_improved |-> TRUE] }

\* the session of an earlier run: three entries with the energizing
\* environment and two with deep_relax, all happy and comfort-improved
EarlierSession ==
    LET energizing == [emotion |-> "happy",
                       environment |-> environment_map("energizing"),
                       sensor_data |-> [temperature |-> 22, humidity |-> 45,
                                        air_quality |-> <<"ppm", 50>>],
                       watch_data |-> [heart_rate |-> 72, stress_level |-> 30],
                       comfort_improved |-> TRUE]
        deep_relax == [energizing EXCEPT
                         !.environment = environment_map("deep_relax"),
                         !.sensor_data.temperature = 24,
                         !.sensor_data.humidity = 50]
    IN <<energizing, energizing, energizing, deep_relax, deep_relax>>

\* the profile that earlier run saved
SavedProfile ==
    CHOOSE p \in LearnedProfiles([user_profile |-> DefaultProfile,
                                  session_data |-> EarlierSession]) : TRUE

\* __init__ with load_profile: a new user without a data file, or a user
\* whose data file holds the profile an earlier run saved
InitPersonal ==
    /\ InitControl
    /\ act = InitActuator(TRUE)
    /\ InitDecisionLog
    /\ dm = InitModel
    /\ InitTick
    /\ InitLearning
    /\ \/ pm = ModelWith(DefaultProfile) /\ data_file = NoFile
       \/ pm = ModelWith(SavedProfile) /\ data_file = CompleteFile(SavedProfile)

\* record_feedback, called by the control loop between learning steps
RecordFeedback ==
    /\ savePc = "idle"
    /\ recorded < MaxFeedback
    /\ \E f \in FeedbackCalls :
           pm' = record_feedback(pm, f.environment_state, f.sensor_data,
                                 f.watch_data, f.emotion, f.comfort_improved)
    /\ recorded' = recorded + 1
    /\ UNCHANGED <<data_file, savePc, observed, learned, tickVars, queryVars, decVars, ctlVars,
                   act, ops, alertVars, simVars>>

\* learn_from_session up to the open() of save_profile: the early return on
\* a short session, or the update of the profile in memory and then
\* makedirs/open, which raises (save_profile catches it, the session is
\* cleared) or truncates the data file
LearnFromSession ==
    /\ savePc = "idle"
    /\ IF TooFewEntries(pm)
       THEN /\ learned' = [kind |-> "no-op",
                            entries |-> Len(pm.session_data)]
            /\ UNCHANGED <<pm, data_file, savePc>>
       ELSE \E p \in LearnedProfiles(pm) :
                \/ /\ pm' = after_failed_save([pm EXCEPT !.user_profile = p])
                   /\ learned' = [kind |-> "learned", before |-> pm,
                                  saved |-> FALSE]
                   /\ UNCHANGED <<data_file, savePc>>
                \/ /\ pm' = [pm EXCEPT !.user_profile = p]
                   /\ data_file' = EmptyFile
                   /\ savePc' = "dump"
                   /\ learned' = [kind |-> "saving", before |-> pm]
    /\ UNCHANGED <<observed, recorded, tickVars, queryVars, decVars, ctlVars, act, ops, alertVars,
                   simVars>>

\* json.dump has written a part of the document to the file
WritePart ==
    /\ savePc = "dump"
    /\ data_file = EmptyFile
    /\ data_file' = PartialFile
    /\ UNCHANGED <<pm, savePc, observed, learned, recorded, tickVars, queryVars, decVars, ctlVars,
                   act, ops, alertVars, simVars>>

\* json.dump has written the whole document and the file is closed;
\* learn_from_session clears the session and returns
FinishSave ==
    /\ savePc = "dump"
    /\ data_file' = CompleteFile(pm.user_profile)
    /\ pm' = after_save(pm)
    /\ savePc' = "idle"
    /\ learned' = [kind |-> "learned", before |-> learned.before,
                   saved |-> TRUE]
    /\ UNCHANGED <<observed, recorded, tickVars, queryVars, decVars, ctlVars, act, ops, alertVars,
                   simVars>>

\* a write raises (disk full, I/O error): the file is closed as it is,
\* save_profile catches the exception, learn_from_session clears the session
\* and returns
FailSave ==
    /\ savePc = "dump"
    /\ pm' = after_failed_save(pm)
    /\ savePc' = "idle"
    /\ learned' = [kind |-> "learned", before |-> learned.before,
                   saved |-> FALSE]
    /\ UNCHANGED <<data_file, observed, recorded, tickVars, queryVars, decVars, ctlVars, act, ops,
                   alertVars, simVars>>

\* another process (the dashboard) opens the data file and reads it, once
ReadProfile ==
    /\ observed = NotRead
    /\ observed' = data_file
    /\ UNCHANGED <<pm, data_file, savePc, learned, recorded, tickVars,
                   queryVars, decVars, ctlVars, act, ops, alertVars, simVars>>

NextPersonal ==
    \/ RecordFeedback
    \/ LearnFromSession
    \/ WritePart
    \/ FinishSave
    \/ FailSave
    \/ ReadProfile

SpecPersonal == InitPersonal /\ [][NextPersonal]_vars

(***************************************************************************)
(* The personalization model from its data file: the constructor loads     *)
(* the profile, and the comfort score and the personalized environment     *)
(* are asked of the model it built.                                        *)
(***************************************************************************)
UserIds == {"user_default", "user_other"}

\* the session buffer after the record_feedback calls of calls, in order
RECURSIVE RecordAll(_, _)
RecordAll(self, calls) ==
    IF calls = <<>> THEN self
    ELSE LET f == Head(calls)
         IN RecordAll(record_feedback(self, f.environment_state,
                                      f.sensor_data, f.watch_data, f.emotion,
                                      f.comfort_improved),
                      Tail(calls))

\* the profiles one learning step on five entries can leave of profile p
LearnedFrom(p) ==
    UNION {LearnedProfiles(RecordAll(ModelWith(p), calls)) :
           calls \in [1..MinEntries -> FeedbackCalls]}

\* the profiles a run can have saved: for the default user the profiles of
\* one learning step and those of a second step after SavedProfile, for
\* another user the saved profile of that user
StoredProfiles ==
    LearnedFrom(DefaultProfile) \cup LearnedFrom(SavedProfile)
        \cup {[SavedProfile EXCEPT !.user_id = "user_other"]}

\* what the constructor can find at data_file: no file, a file it cannot
\* open, a file left empty or in part by a failed save, a JSON document that
\* is no profile, or a saved profile
StoredFiles ==
    {NoFile, UnreadableFile, EmptyFile, PartialFile,
     CompleteFile([note |-> "no user_id"])}
        \cup {CompleteFile(p) : p \in StoredProfiles}

\* the samples a comfort score is asked for, and the emotions and samples a
\* personalized environment is asked for
ComfortSamples ==
    { [sensor_data |-> [temperature |-> t, humidity |-> h,
                        air_quality |-> <<"ppm", 50>>],
       watch_data  |-> [heart_rate |-> 72, stress_level |-> s]] :
      t \in {16, 21, 23, 25, 30}, h \in {30, 50, 70, 95},
      s \in {20, 40, 60, 100} }

EnvironmentSamples ==
    { [emotion |-> e,
       sensor_data |-> [temperature |-> t, humidity |-> 50,
                        air_quality |-> <<"ppm", 50>>],
       watch_data  |-> [heart_rate |-> 72, stress_level |-> s]] :
      e \in {"happy", "sad", "angry", "contempt"},
      t \in {18, 20, 21, 23, 25, 26, 28}, s \in {50, 80} }

InitQuery ==
    /\ InitControl
    /\ act = InitActuator(TRUE)
    /\ InitDecisionLog
    /\ dm = InitModel
    /\ InitTick
    /\ savePc = "idle"
    /\ observed = NotRead
    /\ learned = NotLearned
    /\ recorded = 0
    /\ comfort = NoScore
    /\ personalized = NoEnvironment
    /\ pm = NotConstructed
    /\ requested \in UserIds
    /\ data_file \in StoredFiles

\* PersonalizationModel(user_id=requested)
Construct ==
    /\ pm = NotConstructed
    /\ pm' = PersonalizationModel(requested, data_file)
    /\ UNCHANGED <<data_file, savePc, observed, learned, recorded, requested,
                   comfort, personalized, tickVars, decVars, ctlVars, act, ops,
                   alertVars, simVars>>

\* get_comfort_score on the model as constructed
GetComfortScore ==
    /\ pm # NotConstructed
    /\ comfort = NoScore
    /\ personalized = NoEnvironment
    /\ \E sample \in ComfortSamples :
           \E r \in {get_comfort_score(pm, sample.sensor_data,
                                       sample.watch_data)} :
               /\ comfort' = [kind |-> "scored", sample |-> sample,
                              before |-> pm, score |-> r.ret]
               /\ pm' = r.self
    /\ UNCHANGED <<data_file, savePc, observed, learned, recorded, requested,
                   personalized, tickVars, decVars, ctlVars, act, ops, alertVars,
                   simVars>>

\* get_personalized_environment on the model as constructed
GetPersonalizedEnvironment ==
    /\ pm # NotConstructed
    /\ comfort = NoScore
    /\ personalized = NoEnvironment
    /\ \E sample \in EnvironmentSamples :
           personalized' =
               [kind |-> "environment", sample |-> sample,
                env |-> get_personalized_environment(
                            pm, sample.emotion, sample.sensor_data,
                            sample.watch_data)]
    /\ UNCHANGED <<pm, data_file, savePc, observed, learned, recorded,
                   requested, comfort, tickVars, decVars, ctlVars, act, ops,
                   alertVars, simVars>>

NextQuery ==
    \/ Construct
    \/ GetComfortScore
    \/ GetPersonalizedEnvironment

SpecQuery == InitQuery /\ [][NextQuery]_vars

(***************************************************************************)
(* The controller: start() starts the control thread, the MQTT network     *)
(* thread delivers mood messages, the control loop ticks and sleeps, and   *)
(* stop() ends it.                                                         *)
(***************************************************************************)
\* mood messages delivered to on_mqtt_message
MaxMessages == 1

\* what read_all() and the simulated watch hand to a tick: a complete
\* reading with the int air quality read_all documents; a failed DHT22 read
\* (None, None); the 'Unknown' that read_mq135 returns when the MQ135
\* channel is missing or its read fails
TickSamples == {
    [sensor_data |-> [temperature |-> 22, humidity |-> 50,
                      air_quality |-> <<"ppm", 50>>],
     watch_data  |-> [heart_rate |-> 72, stress_level |-> 50]],
    [sensor_data |-> [temperature |-> NoneInt, humidity |-> NoneInt,
                      air_quality |-> <<"ppm", 50>>],
     watch_data  |-> [heart_rate |-> 72, stress_level |-> 50]],
    [sensor_data |-> [temperature |-> 22, humidity |-> 50,
                      air_quality |-> <<"label", "Unknown">>],
     watch_data  |-> [heart_rate |-> 72, stress_level |-> 50]] }

\* the payloads of the mood messages: an emotion with its timestamp, an
\* object that has no emotion, a JSON value that is no object, no JSON
MoodPayloads == {
    JsonDict({<<"emotion", "angry">>, <<"ts", 1>>}),
    JsonDict({<<"ts", 1>>}),
    JsonList,
    NotJson }

\* start(): running is set, the default environment is applied and the
\* control thread is started
ControllerStart ==
    /\ callerPc = "constructed"
    /\ ~mc.running
    /\ mc' = [mc EXCEPT !.running = TRUE]
    /\ act' = play_sound(
                 set_cabin_lighting(act, dm.current_environment.color_scheme,
                                    dm.current_environment.brightness),
                 dm.current_environment.audio, dm.current_environment.volume)
    /\ ops' = <<"set_cabin_lighting", "play_sound">>
    /\ controlPc' = "test"
    /\ callerPc' = "started"
    /\ UNCHANGED <<iteration, mood, delivered, lighting, tickVars, pmVars,
                   queryVars, decVars, alertVars, simVars>>

\* on_mqtt_connect with rc == 0
OnMqttConnect ==
    /\ callerPc # "stopped"
    /\ ~mc.mqtt_connected
    /\ mc' = [mc EXCEPT !.mqtt_connected = TRUE]
    /\ UNCHANGED <<controlPc, iteration, callerPc, mood, delivered, lighting,
                   tickVars, pmVars, queryVars, decVars, act, ops, alertVars,
                   simVars>>

\* on_mqtt_message: the network thread delivers a mood message
OnMoodMessage ==
    /\ callerPc # "stopped"
    /\ mc.mqtt_connected
    /\ delivered < MaxMessages
    /\ \E payload \in MoodPayloads :
          /\ mc' = on_mqtt_message(mc, payload, now)
          /\ mood' = [kind |-> "message", payload |-> payload]
    /\ delivered' = delivered + 1
    /\ UNCHANGED <<controlPc, iteration, callerPc, lighting, tickVars, pmVars,
                   queryVars, decVars, act, ops, alertVars, simVars>>

\* get_emotion_based_lighting, called while the loop sleeps
GetEmotionBasedLighting ==
    /\ controlPc = "sleep"
    /\ lighting' = [kind |-> "lighting",
                    current_emotion |-> mc.current_emotion,
                    stale |-> now - mc.last_emotion_time > emotion_window,
                    ret |-> get_emotion_based_lighting(mc, now)]
    /\ UNCHANGED <<mc, controlPc, iteration, callerPc, mood, delivered,
                   tickVars, pmVars, queryVars, decVars, act, ops, alertVars,
                   simVars>>

\* the rest of a tick after make_decision returned: the personalized
\* environment is applied when there is a decision, the session is learned
\* from every learn_every iterations, and the loop goes to sleep
TickAfterDecision(s, emotion, score, r) ==
    LET decided  == r.ret.kind = "decision"
        improved == score > mc.previous_comfort_score
        env      == get_personalized_environment(pm, emotion, s.sensor_data,
                                                 s.watch_data)
        fed      == decided /\ iteration > 0
        pm1      == IF fed
                    THEN record_feedback(pm, r.self.current_environment,
                                         s.sensor_data, s.watch_data,
                                         emotion, improved)
                    ELSE pm
    IN /\ IF decided
          THEN /\ personalized' =
                     [kind |-> "environment",
                      sample |-> [emotion |-> emotion,
                                  sensor_data |-> s.sensor_data,
                                  watch_data |-> s.watch_data],
                      env |-> env]
               /\ act' = play_sound(
                            set_cabin_lighting(act, env.color, env.brightness),
                            env.audio, env.volume)
               /\ ops' = <<"set_cabin_lighting", "play_sound">>
          ELSE UNCHANGED <<personalized, act, ops>>
       /\ recorded' = IF fed THEN recorded + 1 ELSE recorded
       /\ IF iteration > 0 /\ iteration % learn_every = 0
          THEN \E done \in learn_from_session(pm1, data_file) :
                   /\ pm' = done.self
                   /\ data_file' = done.file
          ELSE /\ pm' = pm1
               /\ UNCHANGED data_file
       /\ mc' = [mc EXCEPT !.previous_comfort_score = score]
       /\ iteration' = iteration + 1
       /\ controlPc' = "sleep"

\* one pass of the while loop of control_loop, up to time.sleep: the test of
\* running, read_all, add_data_point, get_comfort_score, make_decision and
\* what follows.  An exception leaves the while loop for the except clause
\* that surrounds it, and control_loop returns.  A tick is taken while the
\* sleep that ends it stays within MaxElapsed.
ControlTick ==
    /\ controlPc = "test"
    /\ mc.running
    /\ now + update_interval <= StartTime + MaxElapsed
    /\ \E s \in TickSamples, emotion \in {mc.current_emotion} :
          /\ reading' = [taken |-> TRUE, sensor_data |-> s.sensor_data,
                         watch_data |-> s.watch_data,
                         current_emotion |-> emotion,
                         stale |-> now - mc.last_emotion_time
                                       > emotion_window]
          /\ \E dm1 \in {add_data_point(dm, s.sensor_data, s.watch_data,
                                        emotion)} :
                IF ComfortScoreRaises(s.sensor_data)
                THEN /\ dm' = dm1
                     /\ controlPc' = "failed"
                     /\ UNCHANGED <<mc, iteration, pm, data_file, recorded,
                                    comfort, personalized, act, ops,
                                    decision, called_at, accepted_at>>
                ELSE \E c \in {get_comfort_score(pm, s.sensor_data,
                                                 s.watch_data)},
                        r \in {make_decision(dm1, now)} :
                        /\ comfort' = [kind |-> "scored", sample |-> s,
                                       before |-> pm, score |-> c.ret]
                        /\ dm' = r.self
                        /\ decision' = r.ret
                        /\ called_at' = [time |-> now,
                                         samples |-> Len(dm1.stress_buffer)]
                        /\ accepted_at' = IF r.ret.kind = "decision" THEN now
                                          ELSE accepted_at
                        /\ IF r.ret = Raised
                           THEN /\ controlPc' = "failed"
                                /\ UNCHANGED <<mc, iteration, pm, data_file,
                                               recorded, personalized, act,
                                               ops>>
                           ELSE TickAfterDecision(s, emotion, c.ret, r)
    /\ UNCHANGED <<callerPc, mood, delivered, lighting, discomfort, savePc,
                   observed, learned, requested, twin, now, twin_decision,
                   prior, alertVars, simVars>>

\* time.sleep(update_interval) at the end of a tick
ControlSleep ==
    /\ controlPc = "sleep"
    /\ now' = now + update_interval
    /\ controlPc' = "test"
    /\ UNCHANGED <<mc, iteration, callerPc, mood, delivered, lighting,
                   tickVars, pmVars, queryVars, dm, twin, decision,
                   twin_decision, called_at, accepted_at, prior, act, ops,
                   alertVars, simVars>>

\* the while test finds running false: control_loop returns
ControlReturn ==
    /\ controlPc = "test"
    /\ ~mc.running
    /\ controlPc' = "returned"
    /\ UNCHANGED <<mc, iteration, callerPc, mood, delivered, lighting,
                   tickVars, pmVars, queryVars, decVars, act, ops, alertVars,
                   simVars>>

\* stop() up to the join of the control thread: running is cleared
StopSignal ==
    /\ callerPc = "started"
    /\ mc' = [mc EXCEPT !.running = FALSE]
    /\ callerPc' = "joining"
    /\ UNCHANGED <<controlPc, iteration, mood, delivered, lighting, tickVars,
                   pmVars, queryVars, decVars, act, ops, alertVars, simVars>>

\* stop() from the join on: the control thread has ended (it ends within one
\* update_interval, inside the 5 s the join waits), the MQTT loop is stopped,
\* the actuators are cleaned up and stop() returns
StopReturn ==
    /\ callerPc = "joining"
    /\ controlPc \in {"returned", "failed"}
    /\ act' = cleanup(act)
    /\ ops' = <<ops[2], "cleanup">>
    /\ callerPc' = "stopped"
    /\ UNCHANGED <<mc, controlPc, iteration, mood, delivered, lighting,
                   tickVars, pmVars, queryVars, decVars, alertVars, simVars>>

NextController ==
    \/ ControllerStart
    \/ OnMqttConnect
    \/ OnMoodMessage
    \/ GetEmotionBasedLighting
    \/ ControlTick
    \/ ControlSleep
    \/ ControlReturn
    \/ StopSignal
    \/ StopReturn

InitMainController == Init /\ act = InitActuator(TRUE)

SpecController == InitMainController /\ [][NextController]_vars

(***************************************************************************)
(* The aggregation of the buffers: the decision model as it is after the   *)
(* caller has added some samples, and the dominant emotion and the stress  *)
(* trend that make_decision computes from its buffers.                     *)
(***************************************************************************)
\* samples in the buffers of the model that is aggregated
MaxBuffer == 4

\* samples whose emotions tie in every order and whose stress levels put the
\* last value exactly 5 above or below the mean of the two before it, and
\* more than 5
BufferSamples ==
    { [sensor_data |-> [temperature |-> 22, humidity |-> 50,
                        air_quality |-> <<"ppm", 50>>],
       watch_data  |-> [heart_rate |-> 72, stress_level |-> p[2]],
       emotion     |-> p[1]] :
      p \in {<<"neutral", 40>>, <<"angry", 50>>, <<"happy", 45>>,
             <<"neutral", 56>>, <<"angry", 45>>, <<"happy", 50>>} }

RECURSIVE ModelsAfter(_)
\* the models that n add_data_point calls leave
ModelsAfter(n) ==
    IF n = 0 THEN {InitModel}
    ELSE LET before == ModelsAfter(n - 1)
         IN  before \cup
             { add_data_point(m, s.sensor_data, s.watch_data, s.emotion) :
               m \in before, s \in BufferSamples }

InitBuffers ==
    /\ InitExceptModel
    /\ act = InitActuator(TRUE)
    /\ dm \in ModelsAfter(MaxBuffer)

\* the aggregation at the head of make_decision: calculate_averages (of
\* which the dominant emotion is kept) and calculate_trend(stress_buffer)
Aggregate ==
    /\ summary' = [kind             |-> "summary",
                   dominant_emotion |-> get_dominant_emotion(dm),
                   stress_trend     |-> calculate_trend(dm.stress_buffer)]
    /\ UNCHANGED <<act, ops, escalation, watch, alertVars, decVars, tickVars,
                   pmVars, queryVars, ctlVars>>

NextBuffers == Aggregate

SpecBuffers == InitBuffers /\ [][NextBuffers]_vars

(***************************************************************************)
(* The escalation state machine: every tick a risk score and a cabin       *)
(* temperature arrive, and the strobe threads run.                         *)
(***************************************************************************)
\* risk scores on both sides of the two thresholds, and at them
Risks == {0, FATIGUE_THRESHOLD_WARNING, FATIGUE_THRESHOLD_WARNING + 1,
          FATIGUE_THRESHOLD_CRITICAL, FATIGUE_THRESHOLD_CRITICAL + 1, 100}
\* cabin temperatures below, at and above the hot threshold
CabinTemperatures == {22, TEMP_THRESHOLD_HOT, TEMP_THRESHOLD_HOT + 1}

EscalationTick ==
    \E risk \in Risks, temperature \in CabinTemperatures :
        /\ system_status(risk) = "EMERGENCY"
              => act.emergency_active \/ HasFreeSlot(act)
        /\ act' = drive_actuators(act, risk, temperature)
        /\ escalation' = [kind        |-> "tick",
                          status      |-> system_status(risk),
                          risk        |-> risk,
                          temperature |-> temperature]
        /\ UNCHANGED <<ops, watch, summary, alertVars, decVars, tickVars,
                       pmVars, queryVars, ctlVars>>

NextEscalation ==
    \/ EscalationTick
    \/ StrobeStep

SpecEscalation == Init /\ [][NextEscalation]_vars

(***************************************************************************)
(* The smartwatch simulator: get_data is called tick after tick, and       *)
(* set_scenario between the ticks.                                         *)
(***************************************************************************)
GetData ==
    /\ watch.time_offset < MaxTicks
    /\ \E d \in Draws : watch' = get_data(watch, d)
    /\ UNCHANGED <<act, ops, escalation, summary, alertVars, decVars,
                   tickVars, pmVars, queryVars, ctlVars>>

\* the scenarios, and a value that is no StressScenario (the string "bad")
SetScenario ==
    /\ \E scenario \in Scenarios \cup {"bad"} :
          watch' = set_scenario(watch, scenario)
    /\ UNCHANGED <<act, ops, escalation, summary, alertVars, decVars,
                   tickVars, pmVars, queryVars, ctlVars>>

NextWatch ==
    \/ GetData
    \/ SetScenario

SpecWatch == Init /\ [][NextWatch]_vars

(***************************************************************************)
(* Learning from any session buffer.  The control loop passes the emotion  *)
(* of the last mood message to record_feedback; it can be a label that is  *)
(* no key of the preferences, or None (get_personalized_environment falls  *)
(* back to 'neutral' for both, so the tick goes on to record_feedback).    *)
(***************************************************************************)
\* the keys of emotion_groups in the order of the dict: the emotions of the
\* comfort-improved entries, each where its first entry stands
RECURSIVE GroupKeys(_)
GroupKeys(session_data) ==
    IF session_data = <<>> THEN <<>>
    ELSE LET front == GroupKeys(SubSeq(session_data, 1, Len(session_data) - 1))
             entry == session_data[Len(session_data)]
         IN IF entry.comfort_improved
               /\ ~ \E i \in DOMAIN front : front[i] = entry.emotion
            THEN Append(front, entry.emotion)
            ELSE front

\* the loop over emotion_groups.items(): groups of fewer than 2 entries are
\* skipped, old_pref = preferences[emotion] raises KeyError for an emotion
\* that is no key, and the groups before it have been written by then.  The
\* preferences the loop can leave, and whether it raised.
RECURSIVE UpdateGroups(_, _, _)
UpdateGroups(prefs, session_data, keys) ==
    IF keys = <<>>
    THEN {[preferences |-> p, raised |-> FALSE] : p \in prefs}
    ELSE IF Len(emotion_group(session_data, Head(keys))) < MinGroup
    THEN UpdateGroups(prefs, session_data, Tail(keys))
    ELSE IF \E p \in prefs : Head(keys) \notin DOMAIN p
    THEN {[preferences |-> p, raised |-> TRUE] : p \in prefs}
    ELSE UpdateGroups(
             UNION {{[p EXCEPT ![Head(keys)] = new_pref] :
                        new_pref \in NewPreferences(
                                         p[Head(keys)],
                                         emotion_group(session_data,
                                                       Head(keys)))} :
                    p \in prefs},
             session_data, Tail(keys))

\* learn_from_session on any session buffer: the early return, the KeyError
\* that leaves the method after some groups were written, or the run to the
\* end with the save that succeeds or fails
learn_from_any_session(self, file) ==
    IF TooFewEntries(self)
    THEN {[self |-> self, file |-> file, raised |-> FALSE]}
    ELSE UNION {
           IF g.raised
           THEN {[self |-> [self EXCEPT
                               !.user_profile.preferences = g.preferences],
                  file |-> file, raised |-> TRUE]}
           ELSE LET p == [self.user_profile EXCEPT
                            !.preferences      = g.preferences,
                            !.comfort_zones    =
                                UpdateComfortZones(@, self.session_data),
                            !.learning_history =
                                Append(@, learning_summary(self.session_data)),
                            !.total_sessions   = @ + 1]
                IN {[self |-> after_save([self EXCEPT !.user_profile = p]),
                     file |-> CompleteFile(p), raised |-> FALSE]}
                   \cup
                   {[self |-> after_failed_save(
                                  [self EXCEPT !.user_profile = p]),
                     file |-> failed, raised |-> FALSE] :
                    failed \in {file, EmptyFile, PartialFile}} :
           g \in UpdateGroups({self.user_profile.preferences},
                              self.session_data,
                              GroupKeys(self.session_data)) }

\* the record_feedback calls of the control loop: the emotion is a key of
\* the preferences, a label that is not, or None
AnyFeedbackCalls ==
    { [emotion |-> e[1],
       environment_state |-> environment_map(e[2]),
       sensor_data |-> [temperature |-> 24, humidity |-> 50,
                        air_quality |-> <<"ppm", 50>>],
       watch_data |-> [heart_rate |-> 72, stress_level |-> 30],
       comfort_improved |-> e[3]] :
      e \in { <<"neutral", "deep_relax", TRUE>>,
              <<"happy", "energizing", TRUE>>,
              <<"contempt", "calming_cool", TRUE>>,
              <<None, "neutral_comfort", TRUE>>,
              <<"contempt", "calming_cool", FALSE>> } }

\* record_feedback, called by the control loop
RecordAnyFeedback ==
    /\ learned = NotLearned
    /\ recorded < MaxFeedback
    /\ \E f \in AnyFeedbackCalls :
           pm' = record_feedback(pm, f.environment_state, f.sensor_data,
                                 f.watch_data, f.emotion, f.comfort_improved)
    /\ recorded' = recorded + 1
    /\ UNCHANGED <<data_file, savePc, observed, learned, tickVars, queryVars,
                   decVars, ctlVars, act, ops, alertVars, simVars>>

\* learn_from_session, called once and run to its return or its exception
LearnFromAnySession ==
    /\ learned = NotLearned
    /\ \E done \in learn_from_any_session(pm, data_file) :
           /\ pm' = done.self
           /\ data_file' = done.file
           /\ learned' = [kind |-> IF done.raised THEN "raised"
                                   ELSE "returned",
                          before |-> pm]
    /\ UNCHANGED <<savePc, observed, recorded, tickVars, queryVars, decVars,
                   ctlVars, act, ops, alertVars, simVars>>

NextLearning ==
    \/ RecordAnyFeedback
    \/ LearnFromAnySession

SpecLearning == InitPersonal /\ [][NextLearning]_vars

(***************************************************************************)
(* Shutdown.  The repository has two programs, the alert system            *)
(* (alert.py) and the controller (main_controller.py), each with its own   *)
(* actuator system: a run is a run of one of them.  The threads are       *)
(* scheduled: the control thread, the strobe threads, the MQTT thread      *)
(* inside trigger_alert and the thread inside stop() take their next step. *)
(* Nothing makes the driver acknowledge, a message arrive or stop() be     *)
(* called.                                                                 *)
(***************************************************************************)
\* no method of the alert system has run, no message has reached it
AlertUntouched ==
    /\ mainPc = "constructed"
    /\ mqttPc = "idle"
    /\ last_call = "new"
    /\ drowsiness_data = [alert |-> ""]

\* no method of the controller has run, no message has reached it
ControllerUntouched ==
    /\ callerPc = "constructed"
    /\ mc = InitController

\* a step of the alert system; a drowsiness message is taken while an
\* acknowledgment thread can still be created for it
AlertStep ==
    /\ ControllerUntouched
    /\ \/ NextAlertRunning /\ (mqttPc' = "trigger" => HasFreeAck)
       \/ Stop
       \/ StopCleanup

\* a step of the controller
ControllerStep ==
    /\ AlertUntouched
    /\ NextController

NextShutdown ==
    \/ AlertStep
    \/ ControllerStep

SpecShutdownFair ==
    /\ InitMainController
    /\ [][NextShutdown]_vars
    /\ WF_vars(ControlSleep)
    /\ WF_vars(ControlReturn)
    /\ WF_vars(StopReturn)
    /\ WF_vars(StrobeStep)
    /\ WF_vars(TriggerEmergency)
    /\ SF_vars(StopCleanup)

(***************************************************************************)
(* Claims about the actuator system, checked under SpecAct.                *)
(***************************************************************************)

\* C2: a call of activate_emergency_protocol(True) that directly follows
\* another one (no other actuator call in between) starts no strobe thread
\* and changes no actuator state, so the two calls start exactly one thread.
C2_SecondActivateStartsNothing ==
    [][(ops[2] = "activate" /\ CallActivate) => act' = act]_vars

\* C2 witness: two activations in a row have been made and one strobe
\* thread is alive.
C2_Witness ==
    /\ ops = <<"activate", "activate">>
    /\ act.emergency_active
    /\ NumStrobes(act) = 1

\* C3, as claimed: at most one _emergency_loop thread is alive at any time.
C3_AtMostOneStrobe == NumStrobes(act) <= 1

\* C4, as claimed: activate_emergency_protocol(False) called while the
\* emergency protocol is not active leaves the whole actuator state as it was.
C4_DeactivateInactiveNoOp ==
    [][(CallDeactivate /\ ~act.emergency_active) => act' = act]_vars

\* C5, as claimed: once the emergency flag is down, a strobe thread makes no
\* further light or audio write.
C5_NoStrobeWriteAfterDeactivation ==
    [][(StrobeStep /\ ~act.emergency_active) =>
          /\ act'.current_state = act.current_state
          /\ act'.current_audio = act.current_audio
          /\ act'.current_volume = act.current_volume]_vars

(***************************************************************************)
(* Claims about the alert system, checked under SpecAlert (C7: under       *)
(* SpecAlertFair).                                                         *)
(***************************************************************************)

\* C1: while the system stays running, a step clears alert_active or the
\* actuators' emergency flag only after the acknowledgment event has been
\* delivered (alert_acknowledged is set): no monitoring pass, message or
\* strobe step clears the alert.
C1_ClearedOnlyAfterAcknowledgment ==
    [][(running' /\ (\/ alert_active /\ ~alert_active'
                     \/ act.emergency_active /\ ~act'.emergency_active))
          => alert_acknowledged]_vars

\* C1 witness: the alert is active and unacknowledged, the strobe runs, and
\* a benign message has been handled since the alert was triggered.
C1_Witness ==
    /\ running
    /\ alert_active /\ ~alert_acknowledged
    /\ act.emergency_active /\ NumStrobes(act) = 1
    /\ ackPc["wait"] = 1
    /\ drowsiness_data.alert = ""
    /\ last_call = "on_mqtt_message"

\* C6: a message handled while the alert is active, whatever its flag, does
\* not call trigger_alert: alert state, actuators and threads stay as they
\* are; and trigger_alert is entered only by a step that turns alert_active
\* from false to true.
C6_NoReentryWhileActive ==
    /\ [][(OnMqttMessage /\ alert_active) =>
             /\ last_call' = "on_mqtt_message"
             /\ UNCHANGED <<act, ackPc, mqttPc, alert_active,
                            alert_acknowledged, current_alert_type,
                            normal_mode_active>>]_vars
    /\ [][(mqttPc # "trigger" /\ mqttPc' = "trigger") =>
             (~alert_active /\ alert_active')]_vars

\* C6 witness: the last message handled carried prolonged_microsleep and did
\* not trigger, the alert is active with one waiter and one strobe thread.
C6_Witness ==
    /\ running
    /\ alert_active
    /\ last_call = "on_mqtt_message"
    /\ drowsiness_data.alert = "prolonged_microsleep"
    /\ NumAcks = 1 /\ ackPc["wait"] = 1
    /\ NumStrobes(act) = 1

\* C7: while the system runs, a thread enters the 30 s recovery with the
\* emergency flag down, the alert reset and the energizing light and audio
\* requested; an acknowledged alert leads to recovery; and a recovery leads
\* to normal mode unless a new alert is triggered or the system is stopped.
C7_RecoveryThenNormal ==
    /\ [][(ackPc'["recovery"] > ackPc["recovery"] /\ running') =>
             /\ ~act'.emergency_active
             /\ ~alert_active'
             /\ act'.current_audio = "rock"
             /\ act.strip => act'.current_color_scheme = "energizing_yellow"]_vars
    /\ (ackPc["acked"] > 0) ~> (ackPc["recovery"] > 0)
    /\ (ackPc["recovery"] > 0) ~> (normal_mode_active \/ alert_active \/ ~running)

\* C7 witness: an acknowledgment was delivered, no thread is left, and
\* start_normal_mode ran last and left the system in normal mode.
C7_Witness ==
    /\ running
    /\ alert_acknowledged /\ ~alert_active
    /\ NumAcks = 0
    /\ last_call = "start_normal_mode"
    /\ normal_mode_active

(***************************************************************************)
(* Claims about the decision model, checked under SpecDecision and         *)
(* SpecTwin.                                                               *)
(***************************************************************************)

\* C8: as stated: of any two calls of make_decision less than
\* decision_cooldown seconds apart, the second returns None, whatever was
\* added to the buffers between them. Stated on a call and the call before it.
C8_SecondCallReturnsNone ==
    [][(MakeDecision /\ called_at.time # NoneInt
                     /\ now - called_at.time < decision_cooldown)
           => decision'.kind = "None"]_vars

\* C8: as the code has it: once a call of make_decision has returned a
\* decision, every call less than decision_cooldown seconds after it returns
\* None, whatever was added to the buffers since.
C8_CooldownAfterAccepted ==
    [][(MakeDecision /\ accepted_at # NoneInt
                     /\ now - accepted_at < decision_cooldown)
           => decision'.kind = "None"]_vars

\* a decision was returned, a sample was added, and a call less than 20 s
\* after the decision has returned None
C8_Witness ==
    /\ accepted_at # NoneInt
    /\ called_at.time > accepted_at
    /\ called_at.time - accepted_at < decision_cooldown
    /\ called_at.samples > dm.current_environment.analytics.avg_stress[2]
    /\ decision.kind = "None"

\* C9: a call of make_decision made less than 20 s after the last call that
\* returned a decision, or on fewer than 5 samples, returns None and leaves
\* last_decision_time, current_environment and the six buffers as they were;
\* every other call returns a decision.
C9_NoOpOrDecision ==
    [][MakeDecision =>
          IF \/ accepted_at # NoneInt /\ now - accepted_at < decision_cooldown
             \/ Len(dm.stress_buffer) < MinSamples
          THEN decision'.kind = "None" /\ dm' = dm
          ELSE decision'.kind = "decision"]_vars

\* C10: two decision models whose six buffers hold the same values in the
\* same order, called outside their cooldowns, return the same decision
\* (the same settings of the same winning mode), whatever each of them
\* decided before.
C10_SameBuffersSameDecision ==
    [][(TwinDecide /\ Buffers(dm) = Buffers(twin)
                   /\ ~InCooldown(dm, now) /\ ~InCooldown(twin, now))
           => decision' = twin_decision']_vars

\* a model that had decided before and one that never had were called on
\* the same buffers, and both returned the same decision
C10_Witness ==
    /\ prior[1] > 0
    /\ prior[2] = 0
    /\ Buffers(dm) = Buffers(twin)
    /\ decision.kind = "decision"
    /\ twin_decision = decision
    /\ dm.last_decision_time = now
    /\ twin.last_decision_time = now

(***************************************************************************)
(* Claims about the decision made on a window, checked under SpecWindow.   *)
(***************************************************************************)

\* C11: the mode whose settings make_decision returns has the largest score
\* of the five modes, and of the modes with the largest score it is the first
\* in the order calming_cool, calming_warm, energizing, neutral_comfort,
\* deep_relax.
C11_MaxScoreFirstInOrder ==
    decision.kind = "decision" =>
        LET priority == <<"calming_cool", "calming_warm", "energizing",
                          "neutral_comfort", "deep_relax">>
            scores   == decision.value.score_details
        IN \E i \in 1..5 :
              /\ decision.value.description
                     = environment_map(priority[i]).description
              /\ decision.value.color_scheme
                     = environment_map(priority[i]).color_scheme
              /\ \A j \in 1..5 : scores[priority[j]] <= scores[priority[i]]
              /\ \A j \in 1..(i - 1) : scores[priority[j]] < scores[priority[i]]

\* a decision was returned where two modes share the largest score
C11_Witness ==
    /\ decision.kind = "decision"
    /\ \E a \in Modes, b \in Modes :
          /\ a # b
          /\ decision.value.score_details[a] = decision.value.score_details[b]
          /\ \A c \in Modes : decision.value.score_details[c]
                                 <= decision.value.score_details[a]

(***************************************************************************)
(* Claims about the discomfort scorer, checked under SpecScorer.           *)
(***************************************************************************)

\* C12: whatever the reading and the emotion, the score that
\* calculate_discomfort_score returns is at least 0 and at most 10.
C12_ScoreWithinZeroAndTen ==
    discomfort.kind = "scored" => discomfort.score >= 0 /\ discomfort.score <= 10

\* every factor is at its critical level (the points add up to 15) and the
\* score returned is 10
C12_Witness ==
    /\ discomfort.kind = "scored"
    /\ Len(discomfort.issues) = 6
    /\ reading.sensor_data.temperature > thresholds.temperature.critical_max
    /\ reading.sensor_data.humidity > thresholds.humidity.critical_max
    /\ reading.sensor_data.air_quality > thresholds.air_quality.bad
    /\ reading.watch_data.stress_level > thresholds.stress.high
    /\ reading.watch_data.heart_rate > thresholds.heart_rate.high
    /\ reading.current_emotion \in NegativeEmotions
    /\ discomfort.score = 10

\* a reading where only the temperature can add to the score
OnlyTemperatureAbnormal ==
    /\ reading.taken
    /\ reading.sensor_data.humidity >= thresholds.humidity.min
    /\ reading.sensor_data.humidity <= thresholds.humidity.max
    /\ reading.sensor_data.air_quality <= thresholds.air_quality.moderate
    /\ reading.watch_data.stress_level <= thresholds.stress.low
    /\ reading.watch_data.heart_rate <= thresholds.heart_rate.elevated
    /\ reading.current_emotion \notin NegativeEmotions

IsLearnCall == savePc = "idle" /\ learned' # learned

\* C14: a call of learn_from_session on fewer than 5 buffered entries changes
\* nothing: the profile (preferences, comfort zones, learning_history,
\* total_sessions) and the session buffer are as before, and the data file is
\* neither opened nor written.
C14_ShortSessionNoOp ==
    [][(IsLearnCall /\ Len(pm.session_data) < 5)
          => (pm' = pm /\ data_file' = data_file /\ savePc' = "idle")]_vars

\* learn_from_session was called on four entries, which are still buffered
C14_Witness ==
    /\ learned = [kind |-> "no-op", entries |-> 4]
    /\ Len(pm.session_data) = 4
    /\ recorded = 4

\* the profile in memory holds the result of a learning step on learned.before
HasLearned == learned.kind \in {"saving", "learned"}

\* the comfort-improved entries of an emotion in a session, counted and
\* listed without the model's grouping
ImprovedOf(session_data, emotion) ==
    SelectSeq(session_data,
              LAMBDA entry : entry.comfort_improved = TRUE
                             /\ entry.emotion = emotion)

Emotions == {EmotionOrder[i] : i \in DOMAIN EmotionOrder}

\* value is an integer nearest to 0.7 * old + 0.3 * mean(values)
IsRounded(value, old, values) ==
    LET n == Len(values)
        x == 7 * old * n + 3 * SumSeq(values)
        d == 10 * n * value - x
    IN 2 * d <= 10 * n /\ 2 * d >= 0 - 10 * n

\* C15: after a learning step, for every emotion group with at least 2
\* comfort-improved entries the stored brightness, and likewise the stored
\* volume, equals round(0.7 * old + 0.3 * groupMean).
C15_BlendIsRounded ==
    HasLearned =>
        \A emotion \in Emotions :
            LET entries  == ImprovedOf(learned.before.session_data, emotion)
                old_pref == learned.before.user_profile.preferences[emotion]
                new_pref == pm.user_profile.preferences[emotion]
            IN Len(entries) >= 2 =>
                  /\ IsRounded(new_pref.brightness, old_pref.brightness,
                               Brightnesses(entries))
                  /\ IsRounded(new_pref.volume, old_pref.volume,
                               Volumes(entries))

\* C16: a learning step leaves the preference of an emotion with fewer than
\* 2 comfort-improved entries as it was, and the preferences it stores are
\* ones the same step stores for the session without its entries that did
\* not improve comfort.
C16_SmallGroupsAndUnimprovedIgnored ==
    HasLearned =>
        /\ \A emotion \in Emotions :
               Len(ImprovedOf(learned.before.session_data, emotion)) < 2
                   => pm.user_profile.preferences[emotion]
                        = learned.before.user_profile.preferences[emotion]
        /\ pm.user_profile.preferences
             \in UpdatePreferences(
                     {learned.before.user_profile.preferences},
                     SelectSeq(learned.before.session_data,
                               LAMBDA entry : entry.comfort_improved = TRUE),
                     EmotionOrder)

\* a learning step changed the preference of one emotion on a session that
\* held a single comfort-improved entry of another emotion and an entry that
\* did not improve comfort
C16_Witness ==
    /\ learned.kind = "learned"
    /\ Len(ImprovedOf(learned.before.session_data, "sad")) = 1
    /\ \E i \in DOMAIN learned.before.session_data :
           ~learned.before.session_data[i].comfort_improved
    /\ pm.user_profile.preferences["happy"]
         # learned.before.user_profile.preferences["happy"]
    /\ pm.user_profile.preferences["sad"]
         = learned.before.user_profile.preferences["sad"]

\* the first value of values among its most frequent ones
FirstMostCommon(values) ==
    values[CHOOSE i \in DOMAIN values :
               /\ values[i] \in MostCommon(values)
               /\ \A j \in 1..(i - 1) : values[j] \notin MostCommon(values)]

\* C17: the colour and the audio stored for an emotion group are the most
\* frequent ones among the group's comfort-improved entries, the one that
\* comes first in the session when two are equally frequent.
C17_MostFrequentFirstEncountered ==
    HasLearned =>
        \A emotion \in Emotions :
            LET entries  == ImprovedOf(learned.before.session_data, emotion)
                new_pref == pm.user_profile.preferences[emotion]
            IN Len(entries) >= 2 =>
                  /\ new_pref.color = FirstMostCommon(Colors(entries))
                  /\ new_pref.audio = FirstMostCommon(Audios(entries))

C19_FailedSaveKeepsLearning ==
    [][(learned'.kind = "learned" /\ learned' # learned /\ ~learned'.saved)
          => /\ savePc' = "idle"
             /\ pm'.session_data = <<>>
             /\ pm'.user_profile \in LearnedProfiles(learned'.before)
             /\ pm'.user_profile.total_sessions
                  = learned'.before.user_profile.total_sessions + 1
             /\ Len(pm'.user_profile.learning_history)
                  = Len(learned'.before.user_profile.learning_history) + 1]_vars

\* a write failed half way: the file is left in part, the learned
\* preferences are in memory and the session is empty
C19_Witness ==
    /\ learned.kind = "learned"
    /\ ~learned.saved
    /\ data_file = PartialFile
    /\ pm.session_data = <<>>
    /\ pm.user_profile.preferences
         # learned.before.user_profile.preferences
    /\ pm.user_profile.total_sessions
         = learned.before.user_profile.total_sessions + 1

\* C20: a reader of the data file finds no file or a whole document, never
\* an empty or partly written one.
C20_ReaderSeesWholeDocument ==
    observed.state \in {"not read", "absent", "complete"}

(***************************************************************************)
(* Claims about the stored profile, checked under SpecQuery.               *)
(***************************************************************************)
\* the data file holds a whole document that carries the requested user_id
HoldsRequestedProfile ==
    /\ data_file.state = "complete"
    /\ "user_id" \in DOMAIN data_file.document
    /\ data_file.document.user_id = requested

\* C21: the constructed model holds the stored profile when the file exists,
\* decodes and carries the requested user_id, and the default profile of the
\* requested user in every other case (no file, a file that cannot be read,
\* a malformed document, another user's profile); the constructor raises in
\* no case, and the profile's user_id is always the requested one.
C21_LoadsOwnProfileOrDefault ==
    pm # NotConstructed =>
        /\ "user_profile" \in DOMAIN pm
        /\ pm.user_profile.user_id = requested
        /\ pm.session_data = <<>>
        /\ IF HoldsRequestedProfile
           THEN pm.user_profile = data_file.document
           ELSE pm.user_profile = ProfileOf(requested)

\* the model was constructed from a file that holds another user's learned
\* profile, and holds the default profile
C21_Witness ==
    /\ pm # NotConstructed
    /\ data_file.state = "complete"
    /\ "user_id" \in DOMAIN data_file.document
    /\ data_file.document.user_id # requested
    /\ data_file.document.total_sessions > 0
    /\ pm.user_profile = ProfileOf(requested)

\* C22: get_comfort_score returns max(0, min(100, 100 - 5 * |temperature -
\* preferred temperature| - 2 * |humidity - preferred humidity| - 0.5 *
\* max(0, stress - comfortable maximum))), a value from 0 to 100 (here in
\* tenths), and leaves the user profile and the session buffer as they were.
C22_ComfortScoreFormula ==
    comfort.kind = "scored" =>
        LET zones  == comfort.before.user_profile.comfort_zones
            excess == comfort.sample.watch_data.stress_level
                        - zones.stress.comfortable_max
            raw == 1000
                   - 5 * Abs(10 * comfort.sample.sensor_data.temperature
                             - zones.temperature.preferred)
                   - 2 * Abs(10 * comfort.sample.sensor_data.humidity
                             - zones.humidity.preferred)
                   - 5 * (IF excess > 0 THEN excess ELSE 0)
            low == IF raw < 1000 THEN raw ELSE 1000
        IN /\ comfort.score = (IF low > 0 THEN low ELSE 0)
           /\ comfort.score >= 0
           /\ comfort.score <= 1000
           /\ pm = comfort.before

\* a score strictly between 0 and 100 from a learned profile, for a sample
\* with stress above the comfortable maximum
C22_Witness ==
    /\ comfort.kind = "scored"
    /\ comfort.score > 0
    /\ comfort.score < 1000
    /\ comfort.sample.watch_data.stress_level
         > pm.user_profile.comfort_zones.stress.comfortable_max
    /\ pm.user_profile.total_sessions > 0

\* C23: the brightness get_personalized_environment returns is the stored
\* brightness plus 20 and at most 255 when the temperature is more than 2
\* above the preferred one, below the stored brightness and at least 100
\* when it is more than 2 below, and the stored brightness otherwise, for
\* the default profile and every profile a learning step leaves.
C23_BrightnessFollowsTemperature ==
    personalized.kind = "environment" =>
        LET emotion == personalized.sample.emotion
            stored  ==
                IF emotion \in DOMAIN pm.user_profile.preferences
                THEN pm.user_profile.preferences[emotion].brightness
                ELSE pm.user_profile.preferences["neutral"].brightness
            current   == 10 * personalized.sample.sensor_data.temperature
            preferred == pm.user_profile.comfort_zones.temperature.preferred
            returned  == personalized.env.brightness
        IN IF current > preferred + 20
           THEN returned = stored + 20 /\ returned <= 255
           ELSE IF current < preferred - 20
           THEN returned < stored /\ returned >= 100
           ELSE returned = stored

\* the brightness of a learned preference came back lowered for a
\* temperature more than 2 below the learned preferred temperature
C23_Witness ==
    /\ personalized.kind = "environment"
    /\ personalized.sample.emotion = "happy"
    /\ pm.user_profile.total_sessions > 0
    /\ pm.user_profile.preferences["happy"]
         # DefaultProfile.preferences["happy"]
    /\ 10 * personalized.sample.sensor_data.temperature
         < pm.user_profile.comfort_zones.temperature.preferred - 20
    /\ personalized.env.brightness
         = pm.user_profile.preferences["happy"].brightness - 20

(***************************************************************************)
(* Claims about the controller, checked under SpecController.              *)
(***************************************************************************)

\* a read that failed: the DHT22 gave no temperature or no humidity, or the
\* MQ135 gave no air quality
FailedRead(sensor_data) ==
    \/ sensor_data.temperature = NoneInt
    \/ sensor_data.humidity = NoneInt
    \/ sensor_data.air_quality = <<"label", "Unknown">>

\* C24: a tick of the control loop whose sensor read failed (None for the
\* temperature or the humidity, or an unknown air quality) does not end
\* control_loop: the loop goes to sleep and on to the next tick.
C24_FailedReadKeepsLoopRunning ==
    [][(ControlTick /\ FailedRead(reading'.sensor_data))
           => controlPc' = "sleep"]_vars

\* a payload that is no JSON, or that carries no emotion value
Malformed(payload) ==
    \/ payload.type # "dict"
    \/ dict_get(payload, "emotion") = None

\* C25: a mood message whose payload is malformed (no JSON, or JSON without
\* an emotion value) is dropped: current_emotion and last_emotion_time keep
\* the values they had before the message.
C25_MalformedMessageDropped ==
    [][(OnMoodMessage /\ Malformed(mood'.payload))
           => /\ mc'.current_emotion = mc.current_emotion
              /\ mc'.last_emotion_time = mc.last_emotion_time]_vars

\* C26: a consumer of the current emotion (the sample a tick adds to the
\* decision window and looks the personalized environment up with, the
\* emotion-based lighting) takes an emotion that was last updated more than
\* 10 s ago for 'neutral'.
C26_StaleEmotionIsNeutral ==
    /\ (reading.taken /\ reading.stale) => reading.current_emotion = "neutral"
    /\ (lighting.kind = "lighting" /\ lighting.stale)
           => lighting.ret = emotion_lighting["neutral"]

ActuatorSettings(a) == [a EXCEPT !.threads = [pc \in StrobePcs |-> 0]]

\* C28: when stop() of the alert system has returned, the strobe is
\* deactivated and the audio silent, and it stays so: no strobe iteration and
\* no acknowledgment thread issues a lighting or audio command any more.
C28_StopSilencesActuators ==
    [][mainPc = "stopped"
          => /\ ~act.emergency_active
             /\ ActuatorSettings(act') = ActuatorSettings(act)]_vars

\* C29: once stop() has cleared running, the control loop and the
\* monitoring loop start no new tick, the control loop terminates, and
\* stop() returns, also while an alert waits for its acknowledgment.
C29_StopEndsLoopAndReturns ==
    /\ [][(ControlTick => mc.running) /\ (MonitorTick => running)]_vars
    /\ (callerPc = "joining") ~> (controlPc \in {"returned", "failed"})
    /\ (callerPc = "joining") ~> (callerPc = "stopped")
    /\ (mainPc = "stopping") ~> (mainPc = "stopped")

\* stop() of the alert system has returned while an alert was waiting for
\* its acknowledgment
C29_Witness ==
    /\ mainPc = "stopped"
    /\ ~running
    /\ ackPc["wait"] > 0

(***************************************************************************)
(* Claims about unknown names, checked under SpecAct.                      *)
(***************************************************************************)
\* the calls that name a colour scheme or a sound type the tables lack
UnknownLights == {c \in CallLights : c[1] \notin CabinSchemes}
UnknownSounds ==
    {c \in CallSounds : c[1] \notin DOMAIN sound_profiles \cup {"BEEP", "CALM"}}

\* the step is the call set_cabin_lighting(c[1], c[2])
IsCabinLightingCall(c) ==
    /\ ops' = <<ops[2], "set_cabin_lighting">>
    /\ act' = set_cabin_lighting(act, c[1], c[2])

\* the step is the call play_sound(c[1], c[2])
IsPlaySoundCall(c) ==
    /\ ops' = <<ops[2], "play_sound">>
    /\ act' = play_sound(act, c[1], c[2])

\* after the step the lights show 'cabin_day' at the brightness asked for,
\* and the state says so
CabinDayApplied(brightness) ==
    /\ act'.current_color_scheme = "cabin_day"
    /\ act'.current_brightness = brightness
    /\ act'.current_state.light_mode = "cabin_day"
    /\ act'.current_state.light_color
          = <<"RGB", Scale(255, brightness), Scale(235, brightness),
              Scale(200, brightness)>>

\* after the step the calm file plays, and the state says that the sound
\* asked for is playing
CalmFileApplied(c) ==
    /\ act'.player = CALM_FILE
    /\ act'.current_audio = c[1]
    /\ act'.current_volume = c[2]
    /\ act'.current_state.audio_status = <<"PLAYING", c[1]>>

\* C30: as stated: every set_cabin_lighting call with an unknown colour
\* scheme applies 'cabin_day' and every play_sound call with an unknown
\* sound type plays the calm file, and the actuator state shows the setting.
C30_UnknownNameAlwaysApplied ==
    [][/\ \A c \in UnknownLights :
             IsCabinLightingCall(c) => CabinDayApplied(c[2])
       /\ \A c \in UnknownSounds :
             IsPlaySoundCall(c) => CalmFileApplied(c)]_vars

\* C30: as the code has it: a set_cabin_lighting call with an unknown colour
\* scheme applies 'cabin_day' when the emergency protocol is not active and
\* the LED strip is there, and otherwise changes nothing, as for a known
\* scheme; every play_sound call with an unknown sound type plays the calm
\* file; the actuator state shows what was applied.
C30_UnknownNameAppliesDefault ==
    [][/\ \A c \in UnknownLights :
             IsCabinLightingCall(c) =>
                 IF act.emergency_active \/ ~act.strip THEN act' = act
                 ELSE CabinDayApplied(c[2])
       /\ \A c \in UnknownSounds :
             IsPlaySoundCall(c) => CalmFileApplied(c)]_vars

\* an unknown colour scheme and an unknown sound type were asked for, and
\* 'cabin_day' and the calm file are what the actuators have
C30_Witness ==
    /\ act.strip
    /\ ~act.emergency_active
    /\ act.current_color_scheme = "cabin_day"
    /\ act.current_state.light_mode = "cabin_day"
    /\ act.current_audio \in {c[1] : c \in UnknownSounds}
    /\ act.player = CALM_FILE

(***************************************************************************)
(* Claims about repeated calls, checked under SpecAct.                     *)
(***************************************************************************)
\* the same call made again, right after a call that led from a to b: the
\* state it leaves and whether it touches the hardware
SecondCabinLightingIsNoOp(b, c) ==
    /\ set_cabin_lighting(b, c[1], c[2]) = b
    /\ ~strip_shown(b, c[1], c[2])

SecondPlaySoundIsNoOp(b, s) ==
    /\ play_sound(b, s[1], s[2]) = b
    /\ ~player_restarted(b, s[1], s[2])

\* C31: set_cabin_lighting and play_sound are idempotent: after a call, the
\* same call with the same arguments made next leaves the actuator state as
\* it is, writes no LED and restarts no audio, for every argument, unknown
\* scheme names included
C31_RepeatedCallIsNoOp ==
    [][ /\ \A c \in CallLights :
              ops'[2] = "set_cabin_lighting"
              /\ act' = set_cabin_lighting(act, c[1], c[2])
              => SecondCabinLightingIsNoOp(act', c)
        /\ \A s \in CallSounds :
              ops'[2] = "play_sound"
              /\ act' = play_sound(act, s[1], s[2])
              => SecondPlaySoundIsNoOp(act', s) ]_vars

\* the part of C31 about known schemes and about every sound
C31_KnownRepeatedCallIsNoOp ==
    [][ /\ \A c \in CallLights :
              ops'[2] = "set_cabin_lighting"
              /\ act' = set_cabin_lighting(act, c[1], c[2])
              /\ c[1] \in CabinSchemes
              => SecondCabinLightingIsNoOp(act', c)
        /\ \A s \in CallSounds :
              ops'[2] = "play_sound"
              /\ act' = play_sound(act, s[1], s[2])
              => SecondPlaySoundIsNoOp(act', s) ]_vars


HeartRateMayMove(t, d, e) ==
    Abs(circadian(t + 1) - circadian(t)) + Abs(d.hr_noise) + Abs(e.hr_noise)
    + 1000

\* the same for the stress level, in tenths: what the heart rate moved, and
\* the noise drawn in the two ticks
StressMayMove(d, e) ==
    3 * Abs(e.heart_rate - d.heart_rate) + Abs(d.stress_noise)
    + Abs(e.stress_noise)

\* C33: from one tick to the next, a set_scenario call in between included,
\* the heart rate and the stress level move by no more than their step and
\* the noise of the two ticks, and the stress level stays within 0..100
C33_NoJumpAndInRange ==
    [][ watch.data.kind = "data" /\ watch'.data.kind = "data"
        /\ watch'.time_offset = watch.time_offset + 1
        => /\ 1000 * Abs(watch'.data.heart_rate - watch.data.heart_rate)
                 <= HeartRateMayMove(watch.time_offset - 1, watch.data,
                                     watch'.data)
           /\ Abs(watch'.data.stress_level - watch.data.stress_level)
                 <= StressMayMove(watch.data, watch'.data)
           /\ watch'.data.stress_level >= 0
           /\ watch'.data.stress_level <= 1000 ]_vars

\* the part of C33 that the generator keeps: the stress level is within
\* 0..100 and the heart rate within 50..180, and as long as the scenario is
\* the same the values move by no more than the step and the noise
C33_InRangeAndSteadyInScenario ==
    [][ watch'.data.kind = "data"
        => /\ watch'.data.stress_level >= 0
           /\ watch'.data.stress_level <= 1000
           /\ watch'.data.heart_rate >= 50
           /\ watch'.data.heart_rate <= 180
           /\ watch.data.kind = "data"
              /\ watch'.time_offset = watch.time_offset + 1
              /\ watch'.data.scenario = watch.data.scenario
              => /\ 1000 * Abs(watch'.data.heart_rate - watch.data.heart_rate)
                       <= HeartRateMayMove(watch.time_offset - 1, watch.data,
                                           watch'.data)
                 /\ Abs(watch'.data.stress_level - watch.data.stress_level)
                       <= StressMayMove(watch.data, watch'.data) ]_vars


(***************************************************************************)
(* Claims about the aggregation of the buffers, checked under SpecBuffers. *)
(***************************************************************************)
\* the position of the first occurrence of e in a buffer that holds it
FirstOccurrence(buffer, e) ==
    CHOOSE i \in 1..Len(buffer) :
        buffer[i] = e /\ \A j \in 1..(i - 1) : buffer[j] # e

\* the emotions of a buffer
EmotionsOf(buffer) == {buffer[i] : i \in 1..Len(buffer)}

\* C34: get_dominant_emotion returns an emotion that occurs most often in
\* the emotion buffer and, among those that occur as often, the one that
\* occurs first; 'neutral' for an empty buffer
C34_DominantIsOldestMostFrequent ==
    summary.kind = "summary" =>
        LET buffer == dm.emotion_buffer
            r      == summary.dominant_emotion
        IN  IF buffer = <<>> THEN r = "neutral"
            ELSE /\ r \in EmotionsOf(buffer)
                 /\ \A e \in EmotionsOf(buffer) :
                       /\ EmotionCount(buffer, e) <= EmotionCount(buffer, r)
                       /\ e # r /\ EmotionCount(buffer, e) = EmotionCount(buffer, r)
                          => FirstOccurrence(buffer, r)
                                < FirstOccurrence(buffer, e)

\* two emotions occur twice each, and the one returned is not the one added
\* last nor the one that stands first in the alphabet
C34_Witness ==
    /\ summary.kind = "summary"
    /\ dm.emotion_buffer = <<"neutral", "angry", "angry", "neutral">>
    /\ summary.dominant_emotion = "neutral"

\* the stress trend of a buffer, from the claim's words: twice the last
\* value against the sum of the two before it, so that the mean needs no
\* division
TrendOfLastThree(a, b, last) ==
    IF last + last - (a + b) > 2 * 5 THEN "increasing"
    ELSE IF (a + b) - (last + last) > 2 * 5 THEN "decreasing"
    ELSE "stable"

ScoresBeforeTrend(avg) ==
    HeartRateFactor(
        TemperatureFactor(
            EmotionFactor(StressFactor([mode \in Modes |-> 0], avg), avg),
            avg),
        avg)

\* C36: a decision made on a mean stress above 70 is neither 'energizing'
\* nor 'neutral_comfort', whatever the emotion, the temperature, the heart
\* rate and the trend; and the points of an increasing stress trend go to
\* 'deep_relax' and 'calming_cool' only
C36_HighStressBias ==
    decision.kind = "decision" =>
        LET d   == decision.value
            avg == d.analytics
        IN  /\ avg.avg_stress[1] > 70 * avg.avg_stress[2] =>
                  /\ d.description # environment_map("energizing").description
                  /\ d.description
                        # environment_map("neutral_comfort").description
                  /\ d.color_scheme \notin {"cabin_evening", "cabin_day"}
            /\ \A mode \in {"calming_warm", "energizing", "neutral_comfort"} :
                  d.score_details[mode] = ScoresBeforeTrend(avg)[mode]
            /\ \A mode \in {"deep_relax", "calming_cool"} :
                  IF calculate_trend(dm.stress_buffer) = "increasing"
                  THEN d.score_details[mode] > ScoresBeforeTrend(avg)[mode]
                  ELSE d.score_details[mode] = ScoresBeforeTrend(avg)[mode]

\* a decision on a mean stress above 70 that is rising, for a happy driver:
\* the emotion gives 'energizing' its largest score
C36_Witness ==
    /\ decision.kind = "decision"
    /\ decision.value.analytics.avg_stress[1]
          > 70 * decision.value.analytics.avg_stress[2]
    /\ decision.value.analytics.dominant_emotion = "happy"
    /\ calculate_trend(dm.stress_buffer) = "increasing"
    /\ decision.value.score_details["energizing"] = 3



(***************************************************************************)
(* The environment a feedback entry is about.                              *)
(***************************************************************************)
\* this step is a tick of the control loop that called record_feedback and
\* kept the entry in the session buffer
TickRecordedFeedback ==
    /\ controlPc = "test"
    /\ recorded' = recorded + 1
    /\ pm'.session_data # <<>>

LearnedNothing ==
    /\ pm.user_profile = learned.before.user_profile
    /\ pm.session_data = learned.before.session_data

\* the call of learn_from_session went through: the session is counted and
\* the buffer is cleared
LearnedAll ==
    /\ pm.user_profile.total_sessions
           = learned.before.user_profile.total_sessions + 1
    /\ pm.session_data = <<>>

\* C38: learn_from_session is all-or-nothing on every buffer record_feedback
\* can produce: after the call either nothing has changed, or the session
\* is counted and the buffer cleared; it never leaves some preferences
\* updated with total_sessions not incremented and the buffer not cleared
C38_LearningIsAllOrNothing ==
    learned.kind \in {"returned", "raised"} => LearnedNothing \/ LearnedAll


(***************************************************************************)
(* Claims about the emergency flag and the lights under an emergency,      *)
(* checked under SpecAlert and SpecAct.                                    *)
(***************************************************************************)
\* C39: the emergency flag that get_state reports in current_state is true
\* exactly when the emergency_active attribute of the actuator system is
\* true, whatever activated, deactivated, acknowledged or stopped the alert
C39_ReportedFlagMatchesAttribute ==
    act.current_state.emergency_active = act.emergency_active


\* what the lighting calls write: the light mode and colour of current_state
\* and the tracked colour scheme and brightness
LightFields(a) ==
    <<a.current_state.light_mode, a.current_state.light_color,
      a.current_color_scheme, a.current_brightness>>

\* under an emergency the two lighting calls change none of the light fields
LightingCallsChangeNothing ==
    act.emergency_active
        => /\ \A mode \in MoodModes :
                  LightFields(set_mood_lighting(act, mode)) = LightFields(act)
           /\ \A c \in CallLights :
                  LightFields(set_cabin_lighting(act, c[1], c[2]))
                      = LightFields(act)

\* a step taken under an emergency that changes the light colour
ColourWrittenUnderEmergency ==
    /\ act.emergency_active
    /\ act'.emergency_active
    /\ act'.current_state.light_color # act.current_state.light_color

\* C40: while the emergency is active, set_cabin_lighting and
\* set_mood_lighting leave the light mode, the light colour and the tracked
\* scheme and brightness unchanged; so in every state with emergency_active
\* true the light mode is 'EMERGENCY', and the light colour is written by
\* the strobe loop only
C40_LightsFrozenUnderEmergency ==
    /\ [](LightingCallsChangeNothing)
    /\ [](act.emergency_active => act.current_state.light_mode = "EMERGENCY")
    /\ [][ColourWrittenUnderEmergency => StrobeStep]_vars

\* a lighting call has been made under an emergency that the strobe loop
\* has coloured
C40_Witness ==
    /\ act.emergency_active
    /\ act.current_state.light_color = <<"RED STROBE">>
    /\ ops[2] \in {"set_cabin_lighting", "set_mood_lighting"}

====
